---- MODULE Spec2Model ----
(***************************************************************************)
(* A model of squirrel's SQLite schema parser (package parser):           *)
(* the token stream (tokens.go), the schema model (table.go) and the      *)
(* recursive-descent parser (parser.go).  The parser is a state machine:  *)
(* `stack` holds the active function frames, `i` is the token cursor and  *)
(* every loop iteration of the parser is one action.                      *)
(***************************************************************************)
EXTENDS Integers, Sequences, FiniteSets, TLC

VARIABLES
    tokens,     \* Tokens.tokens: the lexed input
    i,          \* Tokens.i: the cursor (0-based, as in the source)
    stack,      \* active parser frames, innermost first
    tables,     \* Parse: the tables accumulated so far
    t,          \* parseCreateTable: the table under construction
    c,          \* parseColumn: the column under construction
    strict,     \* the strict flag handed to parseColumnDataType
    loopVar,    \* how the build scopes a range loop's variable (go.mod's go line)
    comment,    \* parseComment: the tokens collected so far
    cols,       \* parseColumnList: the column names collected so far
    paren,      \* parseCheckConstraint / parseDatetimeDefault: open parentheses
    dtTok,      \* parseDatetimeDefault: the local t
    result,     \* "none" while running, then "ok", "err" or "panic"
    retTables,  \* the []*Table Parse returned (<<>> for nil)
    err,        \* the error Parse returned ("" for nil)
    sql,        \* Parse's argument: the schema text
    pos,        \* Lex: the characters of sql read so far
    token,      \* Lex: the token in progress
    call,       \* the Tokens method called last, its argument and what it returned
    prev,       \* what an earlier Parse of the same input returned
    mark        \* parseCreateTable: the cursor when the column loop last dispatched

vars == <<tokens, i, stack, tables, t, c, strict, loopVar, comment, cols, paren,
          dtTok, result, retTables, err, sql, pos, token, call, prev, mark>>

-----------------------------------------------------------------------------
(* Bounds *)

\* parseColumnList keeps appending to cols when the input is exhausted; the
\* model stops recording the appended names beyond this length.
MaxListLen == 4

-----------------------------------------------------------------------------
(* Helpers *)

NL == "\n"

\* Parse has not been called before
NoParse == [result |-> "none", retTables |-> <<>>, err |-> ""]

\* no method of the token stream has been called
NoCall == [op |-> "", n |-> 0, ret |-> ""]

Min(a, b) == IF a < b THEN a ELSE b

\* strings.Join(s, " ")
RECURSIVE Join(_)
Join(s) ==
    IF Len(s) = 0 THEN ""
    ELSE IF Len(s) = 1 THEN s[1]
    ELSE s[1] \o " " \o Join(Tail(s))

\* seq1 ++ seq2 ++ ... for a sequence of sequences
RECURSIVE Flatten(_)
Flatten(ss) == IF Len(ss) = 0 THEN <<>> ELSE Head(ss) \o Flatten(Tail(ss))

-----------------------------------------------------------------------------
(* tokens.go: the token stream.  Each operation is given the cursor k it     *)
(* starts from; the operations that move the cursor return the new cursor.  *)

length == Len(tokens)

TokensNext(k) == IF k < length THEN tokens[k + 1] ELSE ""

TokensNextN(k, n) == Join(SubSeq(tokens, k + 1, Min(k + n, length)))

TokensPeek(k, n) == IF k + n < length THEN tokens[k + n + 1] ELSE ""

\* Take returns the token TokensNext(k) and moves the cursor here
TokensTake(k) == IF k < length THEN k + 1 ELSE k

TokensTakeN(k, n) == IF k + n < length THEN k + n ELSE k

TokensReturn(k) == IF k = 0 THEN k ELSE k - 1

\* a slip that would return past the start of the stream
TokensReturnNUnchecked(k, n) == k - n

TokensReturnN(k, n) == IF k - n < 0 THEN k ELSE k - n

-----------------------------------------------------------------------------
(* table.go: the schema model *)

NoForeignKey ==
    [IsNil |-> TRUE, Table |-> "", Column |-> "",
     OnUpdate |-> "NoAction", OnDelete |-> "NoAction"]

\* parseColumn's initial Column literal; the other fields are Go zero values
NewColumn ==
    [sqlName |-> "", Type |-> "", PrimaryKey |-> FALSE,
     CompositePrimaryKey |-> FALSE, Nullable |-> TRUE, Unique |-> FALSE,
     Comment |-> "", ForeignKey |-> NoForeignKey,
     DefaultString |-> [Valid |-> FALSE, String |-> ""],
     DefaultInt |-> [Valid |-> FALSE, Int64 |-> 0],
     DefaultBool |-> [Valid |-> FALSE, Bool |-> FALSE]]

\* parseCreateTable's initial Table literal
NewTable ==
    [Strict |-> FALSE, SchemaName |-> "", sqlName |-> "", Temp |-> FALSE,
     IfNotExists |-> FALSE, Columns |-> <<>>, Comment |-> ""]

\* Table.SetPrimaryKeys: the inner loop, the index of the first column named
\* colName at or after position k, 0 if there is none
RECURSIVE FindColumn(_, _, _)
FindColumn(columns, colName, k) ==
    IF k > Len(columns) THEN 0
    ELSE IF columns[k].sqlName = colName THEN k
    ELSE FindColumn(columns, colName, k + 1)

\* a slip that would make a key column NOT NULL as well
MarkPrimaryKeyNotNull(col, makeCompositePK) ==
    IF makeCompositePK
    THEN [col EXCEPT !.CompositePrimaryKey = TRUE, !.Nullable = FALSE]
    ELSE [col EXCEPT !.PrimaryKey = TRUE, !.Nullable = FALSE]

\* Table.SetPrimaryKeys: the flag one found column is given
MarkPrimaryKey(col, makeCompositePK) ==
    IF makeCompositePK
    THEN [col EXCEPT !.CompositePrimaryKey = TRUE]
    ELSE [col EXCEPT !.PrimaryKey = TRUE]

\* Table.SetPrimaryKeys: the outer loop over colNames[k..]; yields the columns
\* and the names found so far
RECURSIVE MarkColumns(_, _, _, _, _)
MarkColumns(columns, colNames, k, makeCompositePK, foundCols) ==
    IF k > Len(colNames) THEN [Columns |-> columns, foundCols |-> foundCols]
    ELSE LET j == FindColumn(columns, colNames[k], 1)
         IN  IF j = 0
             THEN MarkColumns(columns, colNames, k + 1, makeCompositePK, foundCols)
             ELSE MarkColumns(
                     [columns EXCEPT ![j] = MarkPrimaryKey(@, makeCompositePK)],
                     colNames, k + 1, makeCompositePK,
                     Append(foundCols, columns[j].sqlName))

\* Table.SetPrimaryKeys: the table afterwards and the error returned
SetPrimaryKeys(tbl, colNames) ==
    IF Len(colNames) < 1
    THEN [t |-> tbl, err |-> "must provide at least one column name for primary key(s)"]
    ELSE LET m == MarkColumns(tbl.Columns, colNames, 1, Len(colNames) > 1, <<>>)
         IN  [t |-> [tbl EXCEPT !.Columns = m.Columns],
              err |-> IF Len(colNames) # Len(m.foundCols)
                      THEN "could not find all columns for the composite primary key"
                      ELSE ""]

\* a slip that would forget the type test
AutoIncrementAnyType(col) == col.PrimaryKey

\* Column.AutoIncrement
AutoIncrement(col) == col.PrimaryKey /\ col.Type = "int"

\* A range loop's variable is one variable for the whole loop when go.mod
\* names a Go before 1.22, and a new one in each iteration from 1.22 on.  The
\* repository's go.mod is not among the sources, so both builds are modelled.
LoopVarSemantics == {"perIteration", "perLoop"}

\* Table.PrimaryKeys: the index of the first column with PrimaryKey set at or
\* after position k, 0 if there is none
RECURSIVE FirstPrimaryKey(_, _)
FirstPrimaryKey(columns, k) ==
    IF k > Len(columns) THEN 0
    ELSE IF columns[k].PrimaryKey THEN k
    ELSE FirstPrimaryKey(columns, k + 1)

\* Table.PrimaryKeys: the indexes of the columns with CompositePrimaryKey set,
\* in the order of the loop
CompositeIndexes(columns) ==
    SelectSeq([k \in 1..Len(columns) |-> k], LAMBDA k: columns[k].CompositePrimaryKey)

\* Table.PrimaryKeys: the columns the returned pointers refer to once the
\* method has returned.  The loop returns the first column that has PrimaryKey
\* set, alone; otherwise it appends &col for every composite column, and with
\* one col per loop all those pointers refer to the column iterated last.
PrimaryKeys(tbl, scope) ==
    LET p  == FirstPrimaryKey(tbl.Columns, 1)
        ks == CompositeIndexes(tbl.Columns)
    IN  IF p # 0 THEN <<tbl.Columns[p]>>
        ELSE IF scope = "perIteration"
        THEN [n \in 1..Len(ks) |-> tbl.Columns[ks[n]]]
        ELSE [n \in 1..Len(ks) |-> tbl.Columns[Len(tbl.Columns)]]

\* Table.PrimaryKeyAutoIncrements
PrimaryKeyAutoIncrements(tbl, scope) ==
    LET pks == PrimaryKeys(tbl, scope)
    IN  Len(pks) = 1 /\ AutoIncrement(pks[1])

-----------------------------------------------------------------------------
(* parser.go: pure helpers *)

\* removeQuotes: strip one pair of matching surrounding quotes
removeQuotes(s) ==
    LET l == Len(s) IN
    IF l < 2 THEN s
    ELSE IF \/ (SubSeq(s, 1, 1) = "\"" /\ SubSeq(s, l, l) = "\"")
            \/ (SubSeq(s, 1, 1) = "'" /\ SubSeq(s, l, l) = "'")
         THEN SubSeq(s, 2, l - 1)
         ELSE s

\* removeNewlines: the cursor after the newline tokens at k
RECURSIVE removeNewlines(_)
removeNewlines(k) ==
    IF TokensNext(k) = NL THEN removeNewlines(TokensTake(k)) ELSE k

\* a slip that would leave the Datatype of an unrecognised token unknown
parseColumnDataTypeUnknown(k, isStrict) ==
    LET s == TokensNext(k)
    IN  IF s \in {"INT", "INTEGER"}
        THEN [err |-> "", Type |-> "int", i |-> TokensTake(k)]
        ELSE [err |-> "", Type |-> "Unknown", i |-> TokensTake(k)]

\* a slip that would take an unknown type for BLOB in strict mode too
parseColumnDataTypeLenient(k, isStrict) ==
    LET s  == TokensNext(k)
        k1 == TokensTake(k)
    IN  CASE s \in {"INT", "INTEGER"} -> [err |-> "", Type |-> "int", i |-> k1]
          [] s \in {"FLOAT", "REAL"} -> [err |-> "", Type |-> "float", i |-> k1]
          [] s = "TEXT" -> [err |-> "", Type |-> "text", i |-> k1]
          [] s \in {"BOOL", "BOOLEAN"} /\ ~isStrict -> [err |-> "", Type |-> "bool", i |-> k1]
          [] s \in {"DATETIME", "TIMESTAMP"} /\ ~isStrict ->
                [err |-> "", Type |-> "datetime", i |-> k1]
          [] s \in {",", ")"} -> [err |-> "", Type |-> "blob", i |-> TokensReturn(k1)]
          [] OTHER -> [err |-> "", Type |-> "blob", i |-> k1]

\* parseColumnDataType: the token s = Take() decides; the cursor afterwards is
\* one past s, except for "," and ")" which are handed back with Return
parseColumnDataType(k, isStrict) ==
    LET s  == TokensNext(k)
        k1 == TokensTake(k)
        strictErr == "is not a valid SQLite column type when \"strict\" is enabled"
    IN  CASE s \in {"INT", "INTEGER"} -> [err |-> "", Type |-> "int", i |-> k1]
          [] s \in {"FLOAT", "REAL"} -> [err |-> "", Type |-> "float", i |-> k1]
          [] s = "TEXT" -> [err |-> "", Type |-> "text", i |-> k1]
          [] s \in {"BLOB", "ANY"} -> [err |-> "", Type |-> "blob", i |-> k1]
          [] s \in {"BOOL", "BOOLEAN"} ->
                IF isStrict THEN [err |-> strictErr, Type |-> "", i |-> k1]
                ELSE [err |-> "", Type |-> "bool", i |-> k1]
          [] s \in {"DATETIME", "TIMESTAMP"} ->
                IF isStrict THEN [err |-> strictErr, Type |-> "", i |-> k1]
                ELSE [err |-> "", Type |-> "datetime", i |-> k1]
          [] s \in {",", ")"} ->
                [err |-> "", Type |-> "blob", i |-> TokensReturn(k1)]
          [] OTHER ->
                IF isStrict THEN [err |-> strictErr, Type |-> "", i |-> k1]
                ELSE [err |-> "", Type |-> "blob", i |-> k1]

\* DatatypeFromSQL(s, strict): the Datatype of the SQL type s, Type "" with an
\* error
DatatypeFromSQL(s, isStrict) ==
    LET strictErr == "is not a valid SQLite column type when \"strict\" is enabled"
    IN  CASE s \in {"INT", "INTEGER"} -> [err |-> "", Type |-> "int"]
          [] s \in {"FLOAT", "REAL"} -> [err |-> "", Type |-> "float"]
          [] s = "TEXT" -> [err |-> "", Type |-> "text"]
          [] s \in {"BLOB", "ANY"} -> [err |-> "", Type |-> "blob"]
          [] s \in {"BOOL", "BOOLEAN"} ->
                IF isStrict THEN [err |-> strictErr, Type |-> ""]
                ELSE [err |-> "", Type |-> "bool"]
          [] s \in {"DATETIME", "TIMESTAMP"} ->
                IF isStrict THEN [err |-> strictErr, Type |-> ""]
                ELSE [err |-> "", Type |-> "datetime"]
          [] OTHER ->
                IF isStrict THEN [err |-> strictErr, Type |-> ""]
                ELSE [err |-> "", Type |-> "blob"]

\* a slip that would skip an unsupported ON clause instead of refusing it
parseFkActionSkipping(k) ==
    CASE TokensNextN(k, 3) = "ON DELETE CASCADE" ->
            [err |-> "", field |-> "OnDelete", action |-> "Cascade", i |-> TokensTakeN(k, 3)]
      [] TokensNextN(k, 3) = "ON UPDATE CASCADE" ->
            [err |-> "", field |-> "OnUpdate", action |-> "Cascade", i |-> TokensTakeN(k, 3)]
      [] TokensNextN(k, 4) = "ON DELETE SET NULL" ->
            [err |-> "", field |-> "OnDelete", action |-> "SetNull", i |-> TokensTakeN(k, 4)]
      [] TokensNextN(k, 4) = "ON UPDATE SET NULL" ->
            [err |-> "", field |-> "OnUpdate", action |-> "SetNull", i |-> TokensTakeN(k, 4)]
      [] TokensNextN(k, 4) = "ON DELETE SET DEFAULT" ->
            [err |-> "", field |-> "OnDelete", action |-> "SetDefault", i |-> TokensTakeN(k, 4)]
      [] TokensNextN(k, 4) = "ON UPDATE SET DEFAULT" ->
            [err |-> "", field |-> "OnUpdate", action |-> "SetDefault", i |-> TokensTakeN(k, 4)]
      [] OTHER ->
            [err |-> "", field |-> "", action |-> "", i |-> TokensTakeN(k, 3)]

\* parseFkAction: which field the ON clause at k sets, and the cursor after it
parseFkAction(k) ==
    CASE TokensNextN(k, 3) = "ON DELETE CASCADE" ->
            [err |-> "", field |-> "OnDelete", action |-> "Cascade", i |-> TokensTakeN(k, 3)]
      [] TokensNextN(k, 3) = "ON UPDATE CASCADE" ->
            [err |-> "", field |-> "OnUpdate", action |-> "Cascade", i |-> TokensTakeN(k, 3)]
      [] TokensNextN(k, 4) = "ON DELETE SET NULL" ->
            [err |-> "", field |-> "OnDelete", action |-> "SetNull", i |-> TokensTakeN(k, 4)]
      [] TokensNextN(k, 4) = "ON UPDATE SET NULL" ->
            [err |-> "", field |-> "OnUpdate", action |-> "SetNull", i |-> TokensTakeN(k, 4)]
      [] TokensNextN(k, 4) = "ON DELETE SET DEFAULT" ->
            [err |-> "", field |-> "OnDelete", action |-> "SetDefault", i |-> TokensTakeN(k, 4)]
      [] TokensNextN(k, 4) = "ON UPDATE SET DEFAULT" ->
            [err |-> "", field |-> "OnUpdate", action |-> "SetDefault", i |-> TokensTakeN(k, 4)]
      [] OTHER ->
            [err |-> "column foreign key constraint not supported",
             field |-> "", action |-> "", i |-> k]

\* a slip that would write the action to both fields
ApplyFkActionBoth(fk, a) ==
    IF a.field = "" THEN fk ELSE [fk EXCEPT !.OnDelete = a.action, !.OnUpdate = a.action]

\* the ForeignKey after parseFkAction's assignment
ApplyFkAction(fk, a) ==
    IF a.field = "OnDelete" THEN [fk EXCEPT !.OnDelete = a.action]
    ELSE IF a.field = "OnUpdate" THEN [fk EXCEPT !.OnUpdate = a.action]
    ELSE fk

\* strconv.ParseInt(s, 10, 64): one decimal digit
DigitValue(ch) ==
    CASE ch = "0" -> 0 [] ch = "1" -> 1 [] ch = "2" -> 2 [] ch = "3" -> 3
      [] ch = "4" -> 4 [] ch = "5" -> 5 [] ch = "6" -> 6 [] ch = "7" -> 7
      [] ch = "8" -> 8 [] ch = "9" -> 9 [] OTHER -> -1

\* strconv.ParseInt(s, 10, 64): the digits s[k..] after the value acc; -1 when
\* a character is no digit
RECURSIVE ParseDigits(_, _, _)
ParseDigits(s, k, acc) ==
    IF k > Len(s) THEN acc
    ELSE LET d == DigitValue(SubSeq(s, k, k))
         IN  IF d < 0 THEN -1 ELSE ParseDigits(s, k + 1, acc * 10 + d)

\* strconv.ParseInt(s, 10, 64) for the short literals of the model (no literal
\* of the model approaches the 64-bit range)
ParseInt(s) ==
    LET signed == Len(s) > 0 /\ SubSeq(s, 1, 1) \in {"+", "-"}
        digits == IF signed THEN SubSeq(s, 2, Len(s)) ELSE s
        v      == IF Len(digits) = 0 THEN -1 ELSE ParseDigits(digits, 1, 0)
    IN  IF v < 0 THEN [ok |-> FALSE, val |-> 0]
        ELSE [ok |-> TRUE,
              val |-> IF signed /\ SubSeq(s, 1, 1) = "-" THEN 0 - v ELSE v]

-----------------------------------------------------------------------------
(* The inputs: token sequences as Lex hands them to Parse.  Every source    *)
(* line ends in a newline token, so every input ends in one.                *)

\* column definitions of a first column
FirstColumns ==
    { <<"a", "INT">>,
      <<"a", "INT", "PRIMARY", "KEY">>,
      <<"a", "INTEGER", "PRIMARY", "KEY", "AUTOINCREMENT">>,
      <<"a", "TEXT", "PRIMARY", "KEY">>,
      <<"a", "TEXT", "NOT", "NULL">>,
      <<"a", "INT", "NOT", "NULL", "PRIMARY", "KEY">>,
      <<"a", "INTERGER", "NOT", "NULL">>,
      <<"a">>,
      <<"\"a\"", "TEXT">>,
      <<"a", "BOOL", "DEFAULT", "TRUE">>,
      <<"a", "BOOL", "DEFAULT", "(", "0", ")">>,
      <<"a", "BOOL", "DEFAULT", "maybe">>,
      <<"a", "INT", "DEFAULT", "5">>,
      <<"a", "INT", "DEFAULT", "x">>,
      <<"a", "TEXT", "DEFAULT", "'x'">>,
      <<"a", "FLOAT", "DEFAULT", "1">>,
      <<"a", "DATETIME", "DEFAULT", "(", "now", "(", ")", ")">>,
      <<"a", "DATETIME", "DEFAULT", "NULL">>,
      <<"a", "INT", "REFERENCES", "p", "(", "id", ")">>,
      <<"a", "INT", "REFERENCES", "p">>,
      <<"a", "INT", "NOT", "NULL", "REFERENCES", "p", "ON", "DELETE", "CASCADE">>,
      <<"a", "INT", "REFERENCES", "p", "(", "id", ")", "ON", "UPDATE", "SET", "NULL">>,
      <<"a", "INT", "REFERENCES", "p", "ON", "DELETE", "RESTRICT">>,
      <<"a", "INT", "REFERENCES", "p", "ON", "UPDATE", "SET", "DEFAULT",
        "ON", "DELETE", "SET", "NULL">>,
      <<"a", "INT", "REFERENCES", "p", "(", "id", ")", "ON", "DELETE", "SET", "DEFAULT",
        "ON", "UPDATE", "CASCADE", "ON", "DELETE", "CASCADE">>,
      <<"a", "INT", "REFERENCES", "p", "ON", "UPDATE", "NO", "ACTION">>,
      <<"a", "INT", "REFERENCES", "p", "ON", "UPDATE", "CASCADE", "ON", "DELETE", "RESTRICT">>,
      <<"a", "INT", "REFERENCES", "p", "ON", "CONFLICT">>,
      <<"a", "INT", "REFERENCES">>,
      <<"a", "INT", "REFERENCES", NL>>,
      <<"a", "INT", "CHECK", "(", "a", ">", "(", "0", ")", ")">>,
      <<"a", "INT", "UNIQUE", "--", "id", "of", "a">>,
      <<"a", "INT", "--", "id", "of", "a", NL>>,
      <<"a", "INT", "PRIMARY", "KEY", "NOT", "NULL", "AUTOINCREMENT">>,
      <<"a", "INT", "AUTOINCREMENT", "PRIMARY", "KEY">>,
      <<"a", "INT", NL, "NOT", "NULL">>,
      <<"a", "INT", "NOT", "x">>,
      <<"a", "INT", "PRIMARY", "x">>,
      <<"a", "INT", "AUTOINCREMENT">>,
      <<"a", "INT", "FOO">> }

\* what follows the first column: nothing, or a separator and a second column
SecondColumns ==
    { <<>>,
      <<",", "b", "INT">>,
      <<",", "b", "TEXT", "PRIMARY", "KEY">>,
      <<",", "--", "note", NL, "b", "INT", "NOT", "NULL">>,
      <<",", NL, "a", "TEXT">> }

\* what follows the columns: nothing, or a table constraint
TableConstraints ==
    { <<>>,
      <<",", "PRIMARY", "KEY", "(", "a", ")">>,
      <<",", "PRIMARY", "KEY", "(", "b", ")">>,
      <<",", "PRIMARY", "KEY", "(", "a", ",", "b", ")">>,
      <<",", "PRIMARY", "KEY", "(", "b", ",", "a", ")">>,
      <<",", NL, "CONSTRAINT", "pk", "PRIMARY", "KEY", "(", "a", ",", "b", ")", "--", NL>>,
      <<",", "PRIMARY", "KEY", "(", "zz", ")">>,
      <<",", "PRIMARY", "KEY", "(", "a", ",", "zz", ")">>,
      <<",", "PRIMARY", "KEY", "(", ")">>,
      <<",", "PRIMARY", "KEY">>,
      <<",", "UNIQUE", "(", "a", ",", "b", ")">>,
      <<",", "CHECK", "(", "a", ">", "0", ")">>,
      <<",", "FOREIGN", "KEY", "(", "a", ")", "REFERENCES", "p", "(", "id", ")",
        "ON", "DELETE", "CASCADE">>,
      <<",", "FOREIGN", "KEY", "(", "a", ")", NL, "REFERENCES", "p">>,
      <<",", "FOREIGN", "KEY", "(", "a", ",", "b", ")", "REFERENCES", "p">>,
      <<",", "FOREIGN", "KEY", "(", "a", ")", "REFERENCES", "p", "(", "x", ",", "y", ")">>,
      <<",", "FOREIGN", "KEY", "(", "a", ")", "p">>,
      <<",", "FOREIGN", "KEY", "(", "a", ")", "REFERENCES", "p", "ON", "DELETE", "RESTRICT">>,
      <<",", "FOREIGN", "KEY", "REFERENCES", "p">>,
      <<",", "CONSTRAINT", "fk", "FOREIGN", "KEY", "(", "a", ")", "REFERENCES", "p", "(", "id", ")",
        "ON", "UPDATE", "SET", "NULL", "ON", "DELETE", "CASCADE", "--", "note", NL>>,
      <<",", NL, "CONSTRAINT", "u", "UNIQUE", "(", "a", ")", NL>>,
      <<",", "FOREIGN", "(", "a", ")">> }

\* one CREATE TABLE statement around each body
OneTableInputs ==
    { <<"CREATE", "TABLE", "t", "(">> \o c1 \o c2 \o tc \o <<")", ";", NL>> :
        c1 \in FirstColumns, c2 \in SecondColumns, tc \in TableConstraints }

\* statements that parse to a table
GoodStatements ==
    { <<"CREATE", "TABLE", "u", "(", "id", "INT", "PRIMARY", "KEY", ")", ";", NL>>,
      <<"CREATE", "TABLE", "IF", "NOT", "EXISTS", "\"v\"", "(", "--", "Hello", "world!", NL,
        "id", "INT", NL, ")", NL>>,
      <<"CREATE", "TABLE", "main", ".", "w", "(", "x", ",", "y", ")">> }

\* statements that add no table
IndexStatements ==
    { <<"CREATE", "INDEX", "ix", "ON", "u", "(", "id", ")", ";", NL>>,
      <<"CREATE", "UNIQUE", "INDEX", "ix", NL, "ON", "u", "(", "id", ")", ";">> }

\* statements that fail
BadStatements ==
    { <<"CREATE", "TABLE", "x", "(", "a", "INT", "FOO", ")", ";", NL>>,
      <<"CREATE", "TABLE", "x", "(", "a", "INT", ",", NL>>,
      <<"CREATE", "TABLE", "IF", "EXISTS", "x", "(", "a", ")", NL>>,
      <<"CREATE", "TEMP", "TABLE", "x", "(", "a", "INT", ")", ";", NL>>,
      <<"CREATE", "TEMPORARY", "TABLE", "x", "(", "a", "INT", ")", ";", NL>>,
      <<"DROP", "TABLE", "u", ";", NL>>,
      <<"CREATE", "INDEX", "ix", "ON", "u", "(", "id", ")", NL>> }

\* schemas of up to three statements
Statements == GoodStatements \cup IndexStatements \cup BadStatements

SchemaInputs ==
    { s1 \o s2 \o s3 \o <<NL>> :
        s1 \in GoodStatements \cup IndexStatements \cup {<<>>},
        s2 \in Statements,
        s3 \in GoodStatements \cup {<<>>} }

\* statements cut short at every length, as when the text ends in the middle
\* of a construct
CutStatements ==
    { <<"CREATE", "TABLE", "t", "(", "a", "INT", "CHECK", "(", "a", ">", "(", "0", ")", ")",
        ",", "b", "DATETIME", "DEFAULT", "(", "now", "(", ")", ")", ")", ";">>,
      <<"CREATE", "TABLE", "t", "(", "a", "INT", ",", "b", "TEXT", ",",
        "PRIMARY", "KEY", "(", "a", ",", "b", ")", ",", "CHECK", "(", "a", ")", ")">>,
      <<"CREATE", "TABLE", "t", "(", "a", "INT", "REFERENCES", "p", "(", "id", ")",
        "ON", "DELETE", "SET", "NULL", ",", "UNIQUE", "(", "a", ")", ",",
        "FOREIGN", "KEY", "(", "a", ")", "REFERENCES", "p", "(", "id", ")", ")">> }

CutInputs ==
    UNION { { SubSeq(s, 1, n) \o <<NL>> : n \in 0..Len(s) } : s \in CutStatements }

\* columns with a DEFAULT clause, one of each kind of literal on each type
DefaultColumns ==
    { <<"a", "INT", "DEFAULT", "NULL">>,
      <<"a", "INT", "DEFAULT", "-5">>,
      <<"a", "INT", "DEFAULT", "1.5">>,
      <<"a", "INT", "NOT", "NULL", "DEFAULT", "'5'">>,
      <<"a", "TEXT", "DEFAULT", "\"x\"">>,
      <<"a", "TEXT", "DEFAULT", "'x\"">>,
      <<"a", "TEXT", "DEFAULT", "NULL">>,
      <<"a", "TEXT", "DEFAULT", "x", "NOT", "NULL">>,
      <<"a", "BOOL", "DEFAULT", "NULL">>,
      <<"a", "BOOL", "DEFAULT", "false">>,
      <<"a", "BOOLEAN", "DEFAULT", "1">>,
      <<"a", "BOOL", "DEFAULT", "(", "TRUE", ")">>,
      <<"a", "BOOL", "DEFAULT", "(", "maybe", ")">>,
      <<"a", "BOOL", "DEFAULT", "(", "NULL", ")">>,
      <<"a", "BOOL", "DEFAULT", "(">>,
      <<"a", "BOOL", "DEFAULT", "'true'">>,
      <<"a", "BLOB", "DEFAULT", "1">>,
      <<"a", "REAL", "DEFAULT", "NULL">>,
      <<"a", "TIMESTAMP", "DEFAULT", "(", "datetime", "(", "'now'", ")", ")", "NOT", "NULL">>,
      <<"a", "DATETIME", "DEFAULT", "CURRENT_TIMESTAMP">> }

\* one CREATE TABLE statement around each of them
DefaultInputs ==
    { <<"CREATE", "TABLE", "t", "(">> \o c1 \o c2 \o <<")", ";", NL>> :
        c1 \in DefaultColumns, c2 \in {<<>>, <<",", "b", "INT">>} }

\* tables whose identifiers are written in quotes
QuotedInputs ==
    { <<"CREATE", "TABLE", "\"t\"", "(", "\"a\"", "INT", "REFERENCES", "\"p\"",
        "(", "\"id\"", ")", ")", ";", NL>>,
      <<"CREATE", "TABLE", "'t'", "(", "'a'", "INT", "REFERENCES", "'p'", "ON", "DELETE", "CASCADE",
        ")", NL>>,
      <<"CREATE", "TABLE", "t", "(", "\"a\"", "INT", ",", "PRIMARY", "KEY", "(", "\"a\"", ")",
        ")", ";", NL>>,
      <<"CREATE", "TABLE", "t", "(", "a", "INT", ",", "'b'", "TEXT", ",",
        "PRIMARY", "KEY", "(", "'a'", ",", "\"b\"", ")", ")", NL>> }

\* tables named by keywords, bare and in quotes, and by names whose quote is
\* not closed
KeywordInputs ==
    { <<"CREATE", "TABLE", "t", "(", "ORDER", "INT", ")", ";", NL>>,
      <<"CREATE", "TABLE", "SELECT", "(", "a", "INT", ")", NL>>,
      <<"CREATE", "TABLE", "\"SELECT\"", "(", "'ORDER'", "INT", ")", NL>>,
      <<"CREATE", "TABLE", "t", "(", "\"a", "INT", ")", NL>>,
      <<"CREATE", "TABLE", "'t", "(", "a", "INT", ")", NL>> }

\* CHECK constraints with and without their parenthesised expression
CheckInputs ==
    { <<"CREATE", "TABLE", "t", "(", "a", "INT", "CHECK", "(", "a", ">", "0", ")", ",",
        "b", "INT", ")", ";", NL>>,
      <<"CREATE", "TABLE", "t", "(", "a", "INT", "CHECK", ")", ";", NL>>,
      <<"CREATE", "TABLE", "t", "(", "a", "INT", ",", "CHECK", "a", ">", "0", ")", ";", NL,
        "CREATE", "TABLE", "u", "(", "b", "INT", ")", ";", NL>> }

\* what a comment may say: a word, the name of a column, punctuation, keywords
CommentTexts ==
    { <<"note">>, <<"b">>, <<")">>, <<"(", ",", ";">>, <<"PRIMARY", "KEY">> }

\* the places of a table body a comment is written in: after the last comma,
\* at the end of a column, in the list of a PRIMARY KEY, in the expression of
\* a CHECK
CommentPlaces ==
    { << <<"CREATE", "TABLE", "t", "(", "a", "INT", ",", "b", "INT", ",">>,
         <<")", ";", NL>> >>,
      << <<"CREATE", "TABLE", "t", "(", "a", "INT">>,
         <<",", "b", "INT", ")", ";", NL>> >>,
      << <<"CREATE", "TABLE", "t", "(", "a", "INT", ",", "b", "INT", ",",
           "PRIMARY", "KEY", "(", "a">>,
         <<")", ")", ";", NL>> >>,
      << <<"CREATE", "TABLE", "t", "(", "a", "INT", "CHECK", "(", "a", ">", "0">>,
         <<")", ",", "b", "INT", ")", ";", NL>> >> }

\* one statement for each place and each text
CommentInputs ==
    { pl[1] \o <<"--">> \o x \o <<NL>> \o pl[2] : pl \in CommentPlaces, x \in CommentTexts }

Inputs ==
    OneTableInputs \cup SchemaInputs \cup CutInputs \cup DefaultInputs \cup QuotedInputs
        \cup KeywordInputs \cup CheckInputs \cup CommentInputs

-----------------------------------------------------------------------------
(* Lex: the schema text is cut into tokens, character by character.          *)

\* the function running: the innermost frame
Top == IF Len(stack) = 0 THEN "" ELSE Head(stack)

Running(frame) == result = "none" /\ Top = frame

\* the character Lex reads next
Ch == SubSeq(sql, pos + 1, pos + 1)

\* a slip that would close a token that was never begun
FlushAlways(tks, tok) == Append(tks, tok)

\* if token != "" { tokens = append(tokens, token) }
Flush(tks, tok) == IF tok # "" THEN Append(tks, tok) ELSE tks

\* the text ends where strings.Split ends the last line
AtEnd == pos = Len(sql)

\* case ' ', '\t': the token in progress is closed
LexSpace ==
    /\ Running("Lex")
    /\ ~AtEnd
    /\ Ch \in {" ", "\t"}
    /\ tokens' = Flush(tokens, token)
    /\ token' = ""
    /\ pos' = pos + 1
    /\ UNCHANGED <<i, stack, tables, t, c, strict, loopVar, comment, cols, paren, dtTok,
                   result, retTables, err, sql, call, prev, mark>>

\* case ',', '(', ')', ';': the token in progress is closed and the character
\* is a token of its own
LexPunct ==
    /\ Running("Lex")
    /\ ~AtEnd
    /\ Ch \in {",", "(", ")", ";"}
    /\ tokens' = Append(Flush(tokens, token), Ch)
    /\ token' = ""
    /\ pos' = pos + 1
    /\ UNCHANGED <<i, stack, tables, t, c, strict, loopVar, comment, cols, paren, dtTok,
                   result, retTables, err, sql, call, prev, mark>>

\* default: the character joins the token in progress
LexChar ==
    /\ Running("Lex")
    /\ ~AtEnd
    /\ Ch \notin {" ", "\t", ",", "(", ")", ";", "\n"}
    /\ token' = token \o Ch
    /\ pos' = pos + 1
    /\ UNCHANGED <<tokens, i, stack, tables, t, c, strict, loopVar, comment, cols, paren,
                   dtTok, result, retTables, err, sql, call, prev, mark>>

\* the end of a line that is not the last: the token in progress is closed and
\* the newline token is added
LexLine ==
    /\ Running("Lex")
    /\ ~AtEnd
    /\ Ch = "\n"
    /\ tokens' = Append(Flush(tokens, token), NL)
    /\ token' = ""
    /\ pos' = pos + 1
    /\ UNCHANGED <<i, stack, tables, t, c, strict, loopVar, comment, cols, paren, dtTok,
                   result, retTables, err, sql, call, prev, mark>>

\* the end of the last line: as LexLine, then return NewTokens(tokens) to Parse
LexReturn ==
    /\ Running("Lex")
    /\ AtEnd
    /\ tokens' = Append(Flush(tokens, token), NL)
    /\ token' = ""
    /\ i' = 0
    /\ stack' = Tail(stack)
    /\ UNCHANGED <<tables, t, c, strict, loopVar, comment, cols, paren, dtTok,
                   result, retTables, err, sql, pos, call, prev, mark>>

NextLex == LexSpace \/ LexPunct \/ LexChar \/ LexLine \/ LexReturn

\* schema texts, spaced tightly and loosely
LexTexts ==
    { "",
      "CREATE TABLE main.users (id INT);",
      "CREATE TABLE main . users ( id INT ) ;",
      "CREATE TABLE \"main\".\"users\" (id INT)",
      "CREATE TABLE c (\n\tfoo TEXT, --x y\n\tbar TEXT,-- x\n\tbaz TEXT--x\n);",
      "CREATE TABLE c (\n foo TEXT , -- x\n bar INT -- (1-2) y\n);\n",
      "CREATE TABLE \"foo\" ( -- Hello world!\n\tid INT PRIMARY KEY NOT NULL AUTOINCREMENT\n);",
      "CREATE TABLE foo (--Hi\n id INT\n)",
      "CREATE TABLE t ( a INT ) ;",
      "CREATE TABLE u (id INT);\nCREATE INDEX ix ON u(id);\nCREATE UNIQUE INDEX iy ON u (id) ;",
      "-- a note\nCREATE TABLE u (a--b\n)",
      "x  y\t\tz \n\n(,;)x",
      "CREATE TABLE (a INT);",
      "CREATE TABLE\nt (a INT);",
      "CREATE TABLE \"\" (a INT);" }

\* Parse(sql) is entered: Lex runs first
InitLex ==
    /\ sql \in LexTexts
    /\ pos = 0
    /\ token = ""
    /\ call = NoCall
    /\ prev = NoParse
    /\ mark = 0
    /\ tokens = <<>>
    /\ i = 0
    /\ stack = <<"Lex", "Parse">>
    /\ tables = <<>>
    /\ t = NewTable
    /\ c = NewColumn
    /\ strict = FALSE
    /\ loopVar \in LoopVarSemantics
    /\ comment = <<>>
    /\ cols = <<>>
    /\ paren = 0
    /\ dtTok = ""
    /\ result = "none"
    /\ retTables = <<>>
    /\ err = ""

SpecLex == InitLex /\ [][NextLex]_vars

-----------------------------------------------------------------------------
(* Parse *)

Init ==
    /\ tokens \in Inputs
    /\ i = 0
    /\ stack = <<"Parse">>
    /\ tables = <<>>
    /\ t = NewTable
    /\ c = NewColumn
    /\ strict = FALSE
    /\ loopVar \in LoopVarSemantics
    /\ comment = <<>>
    /\ cols = <<>>
    /\ paren = 0
    /\ dtTok = ""
    /\ result = "none"
    /\ retTables = <<>>
    /\ err = ""
    /\ sql = ""
    /\ pos = 0
    /\ token = ""
    /\ call = NoCall
    /\ prev = NoParse
    /\ mark = 0

\* a slip that would hand back the tables parsed before the failure
ErrorTablesPartial(tbls) == tbls

\* Parse: the table list returned with an error (return nil, err)
ErrorTables(tbls) == <<>>

\* Parse: an error from cursor k; printContext moves the cursor back before
\* Parse returns nil and the error
ParseError(k, e) ==
    /\ i' = TokensReturnN(k, 10)
    /\ stack' = <<>>
    /\ result' = "err"
    /\ retTables' = ErrorTables(tables)
    /\ err' = e

\* a nil-pointer or index panic unwinds Parse: nothing is returned
Panic(k) ==
    /\ i' = k
    /\ stack' = <<>>
    /\ result' = "panic"
    /\ retTables' = <<>>
    /\ err' = ""

\* the parse goes on from cursor k with the frames fs
Continue(k, fs) ==
    /\ i' = k
    /\ stack' = fs
    /\ UNCHANGED <<result, retTables, err>>

\* Parse, case tokens.Next() == "\n"
ParseNewline ==
    /\ Running("Parse")
    /\ TokensNext(i) = NL
    /\ Continue(TokensTake(i), stack)
    /\ UNCHANGED <<tokens, tables, t, c, strict, loopVar, comment, cols, paren, dtTok, sql, pos, token, call, prev, mark>>

\* Parse, case tokens.Next() == "": the end of the SQL
ParseEnd ==
    /\ Running("Parse")
    /\ TokensNext(i) = ""
    /\ stack' = <<>>
    /\ result' = "ok"
    /\ retTables' = tables
    /\ err' = ""
    /\ UNCHANGED <<tokens, i, tables, t, c, strict, loopVar, comment, cols, paren, dtTok, sql, pos, token, call, prev, mark>>

\* parseComment called at cursor k by a caller that goes on in frames fs: the
\* frame `into` collects the comment when there is one
CallParseComment(k, into, fs) ==
    IF TokensNext(k) = "--"
    THEN Continue(TokensTake(k), <<into>> \o fs) /\ comment' = <<>>
    ELSE Continue(k, fs) /\ UNCHANGED comment

\* Parse, case "CREATE TABLE": parseCreateTable up to its column loop
ParseCreateTable ==
    /\ Running("Parse")
    /\ TokensNext(i) \notin {NL, ""}
    /\ TokensNextN(i, 2) = "CREATE TABLE"
    /\ LET k1 == TokensTake(i)
           isTemp == TokensNext(k1) \in {"TEMP", "TEMPORARY"}
           k2 == IF isTemp THEN TokensTake(k1) ELSE k1
           k3 == TokensTake(k2)
           hasIf == TokensNext(k3) = "IF"
           ifOk == TokensNextN(k3, 3) = "IF NOT EXISTS"
           k4 == IF hasIf THEN TokensTakeN(k3, 3) ELSE k3
           qualified == TokensPeek(k4, 1) = "."
           k5 == IF qualified THEN TokensTake(TokensTake(k4)) ELSE k4
           k6 == TokensTake(k5)
           k7 == IF TokensNext(k6) = "(" THEN TokensTake(k6) ELSE k6
           tbl == [NewTable EXCEPT
                     !.Temp = isTemp,
                     !.IfNotExists = hasIf,
                     !.SchemaName = IF qualified THEN removeQuotes(TokensNext(k4)) ELSE "",
                     !.sqlName = removeQuotes(TokensNext(k5))]
       IN  IF TokensNext(i) # "CREATE"
           THEN ParseError(k1, "create table must begin with 'CREATE'")
                /\ UNCHANGED <<t, comment>>
           ELSE IF TokensNext(k2) # "TABLE"
           THEN ParseError(k3, "create table must begin with 'CREATE [TEMP|TEMPORARY] TABLE'")
                /\ UNCHANGED <<t, comment>>
           ELSE IF hasIf /\ ~ifOk
           THEN ParseError(k3, "create table must use 'IF NOT EXISTS' when 'IF' is present")
                /\ UNCHANGED <<t, comment>>
           ELSE /\ t' = tbl
                /\ CallParseComment(k7, "parseComment/table", <<"parseCreateTable">> \o stack)
    /\ UNCHANGED <<tokens, tables, c, strict, loopVar, cols, paren, dtTok, sql, pos, token, call, prev, mark>>

\* Parse, cases "CREATE INDEX" and "CREATE UNIQUE INDEX": parseCreateIndex up
\* to its loop
ParseCreateIndex ==
    /\ Running("Parse")
    /\ TokensNext(i) \notin {NL, ""}
    /\ TokensNextN(i, 2) # "CREATE TABLE"
    /\ \/ TokensNextN(i, 2) = "CREATE INDEX"
       \/ TokensNextN(i, 3) = "CREATE UNIQUE INDEX"
    /\ Continue(TokensTake(i), <<"parseCreateIndex">> \o stack)
    /\ UNCHANGED <<tokens, tables, t, c, strict, loopVar, comment, cols, paren, dtTok, sql, pos, token, call, prev, mark>>

\* a slip that would pass over an unsupported statement and return
ParseUnsupportedSilent ==
    /\ Running("Parse")
    /\ TokensNext(i) \notin {NL, ""}
    /\ TokensNextN(i, 2) \notin {"CREATE TABLE", "CREATE INDEX"}
    /\ TokensNextN(i, 3) # "CREATE UNIQUE INDEX"
    /\ stack' = <<>>
    /\ result' = "ok"
    /\ retTables' = tables
    /\ err' = ""
    /\ UNCHANGED <<tokens, i, tables, t, c, strict, loopVar, comment, cols, paren, dtTok, sql, pos, token, call, prev, mark>>

\* Parse, default case
ParseUnsupported ==
    /\ Running("Parse")
    /\ TokensNext(i) \notin {NL, ""}
    /\ TokensNextN(i, 2) \notin {"CREATE TABLE", "CREATE INDEX"}
    /\ TokensNextN(i, 3) # "CREATE UNIQUE INDEX"
    /\ ParseError(i, "unsupported statement")
    /\ UNCHANGED <<tokens, tables, t, c, strict, loopVar, comment, cols, paren, dtTok, sql, pos, token, call, prev, mark>>

\* a slip that would add the table parsed last once more for an index
IndexEndAddingTable ==
    /\ Running("parseCreateIndex")
    /\ TokensNext(i) = ";"
    /\ Continue(TokensTake(i), Tail(stack))
    /\ tables' = Append(tables, t)
    /\ UNCHANGED <<tokens, t, c, strict, loopVar, comment, cols, paren, dtTok, sql, pos, token, call, prev, mark>>

\* parseCreateIndex: the token taken is ";"
IndexEnd ==
    /\ Running("parseCreateIndex")
    /\ TokensNext(i) = ";"
    /\ Continue(TokensTake(i), Tail(stack))
    /\ UNCHANGED <<tokens, tables, t, c, strict, loopVar, comment, cols, paren, dtTok, sql, pos, token, call, prev, mark>>

\* parseCreateIndex: the token taken is a newline or part of the index
IndexToken ==
    /\ Running("parseCreateIndex")
    /\ TokensNext(i) \notin {";", ""}
    /\ Continue(TokensTake(i), stack)
    /\ UNCHANGED <<tokens, tables, t, c, strict, loopVar, comment, cols, paren, dtTok, sql, pos, token, call, prev, mark>>

\* parseCreateIndex: the tokens ran out before the semicolon
IndexUnterminated ==
    /\ Running("parseCreateIndex")
    /\ TokensNext(i) = ""
    /\ ParseError(TokensTake(i), "expected closing semi-colon while parsing CREATE INDEX")
    /\ UNCHANGED <<tokens, tables, t, c, strict, loopVar, comment, cols, paren, dtTok, sql, pos, token, call, prev, mark>>

-----------------------------------------------------------------------------
(* parseComment *)

CommentFrames ==
    {"parseComment/table", "parseComment/body", "parseComment/column",
     "parseComment/columnEnd"}

\* parseCreateTable, default case after parseColumn returned col without an
\* error: the column is appended to the table
AppendColumn(tbl, col) == [tbl EXCEPT !.Columns = Append(@, col)]

\* parseComment: a token of the comment is collected and consumed
CommentToken ==
    /\ result = "none"
    /\ Top \in CommentFrames
    /\ TokensNext(i) # NL
    /\ comment' = Append(comment, TokensNext(i))
    /\ Continue(TokensTake(i), stack)
    /\ UNCHANGED <<tokens, tables, t, c, strict, loopVar, cols, paren, dtTok, sql, pos, token, call, prev, mark>>

\* a slip that would drop the comment of the table
CommentEndTableDropped ==
    /\ Running("parseComment/table")
    /\ TokensNext(i) = NL
    /\ Continue(i, Tail(stack))
    /\ UNCHANGED <<tokens, tables, t, c, strict, loopVar, comment, cols, paren, dtTok, sql, pos, token, call, prev, mark>>

\* parseComment returns to parseCreateTable: t.Comment = parseComment(tokens)
CommentEndTable ==
    /\ Running("parseComment/table")
    /\ TokensNext(i) = NL
    /\ t' = [t EXCEPT !.Comment = Join(comment)]
    /\ Continue(i, Tail(stack))
    /\ UNCHANGED <<tokens, tables, c, strict, loopVar, comment, cols, paren, dtTok, sql, pos, token, call, prev, mark>>

\* parseComment returns to parseCreateTable's column loop, which drops it
CommentEndBody ==
    /\ Running("parseComment/body")
    /\ TokensNext(i) = NL
    /\ Continue(i, Tail(stack))
    /\ UNCHANGED <<tokens, tables, t, c, strict, loopVar, comment, cols, paren, dtTok, sql, pos, token, call, prev, mark>>

\* parseComment returns to parseColumn's constraint loop
CommentEndColumn ==
    /\ Running("parseComment/column")
    /\ TokensNext(i) = NL
    /\ c' = [c EXCEPT !.Comment = Join(comment)]
    /\ Continue(i, Tail(stack))
    /\ UNCHANGED <<tokens, tables, t, strict, loopVar, comment, cols, paren, dtTok, sql, pos, token, call, prev, mark>>

\* a slip that would drop the comment after the "," of a column
CommentEndColumnEndDropped ==
    /\ Running("parseComment/columnEnd")
    /\ TokensNext(i) = NL
    /\ t' = AppendColumn(t, c)
    /\ Continue(i, Tail(Tail(stack)))
    /\ UNCHANGED <<tokens, tables, c, strict, loopVar, comment, cols, paren, dtTok, sql, pos, token, call, prev, mark>>

\* parseComment returns to parseColumn after the "," that ends the column:
\* parseColumn breaks and returns the column
CommentEndColumnEnd ==
    /\ Running("parseComment/columnEnd")
    /\ TokensNext(i) = NL
    /\ c' = [c EXCEPT !.Comment = Join(comment)]
    /\ t' = AppendColumn(t, c')
    /\ Continue(i, Tail(Tail(stack)))
    /\ UNCHANGED <<tokens, tables, strict, loopVar, comment, cols, paren, dtTok, sql, pos, token, call, prev, mark>>

-----------------------------------------------------------------------------
(* parseCreateTable: the column loop *)

\* case ")": the end of the table definition; Parse appends the table
BodyClose ==
    /\ Running("parseCreateTable")
    /\ mark' = i
    /\ TokensNext(i) = ")"
    /\ LET k1 == TokensTake(i)
           k2 == IF TokensNext(k1) = ";" THEN TokensTake(k1) ELSE k1
       IN  Continue(k2, Tail(stack))
    /\ tables' = Append(tables, t)
    /\ UNCHANGED <<tokens, t, c, strict, loopVar, comment, cols, paren, dtTok, sql, pos, token, call, prev>>

\* case "": the tokens ran out
BodyEnd ==
    /\ Running("parseCreateTable")
    /\ mark' = i
    /\ TokensNext(i) = ""
    /\ ParseError(i, "ran out of tokens unexpectedly - table was likely not closed properly")
    /\ UNCHANGED <<tokens, tables, t, c, strict, loopVar, comment, cols, paren, dtTok, sql, pos, token, call, prev>>

\* cases "\n" and ","
BodySkip ==
    /\ Running("parseCreateTable")
    /\ mark' = i
    /\ TokensNext(i) \in {NL, ","}
    /\ Continue(TokensTake(i), stack)
    /\ UNCHANGED <<tokens, tables, t, c, strict, loopVar, comment, cols, paren, dtTok, sql, pos, token, call, prev>>

\* case "--"
BodyComment ==
    /\ Running("parseCreateTable")
    /\ mark' = i
    /\ TokensNext(i) = "--"
    /\ CallParseComment(i, "parseComment/body", stack)
    /\ UNCHANGED <<tokens, tables, t, c, strict, loopVar, cols, paren, dtTok, sql, pos, token, call, prev>>

\* the tokens on which parseCreateTable calls parseTableConstraint
ConstraintWords == {"CONSTRAINT", "PRIMARY", "UNIQUE", "CHECK", "FOREIGN"}

\* parseColumnList called at cursor k by a caller that goes on in frames fs:
\* without a "(" the token taken is returned and the list is nil
ColumnListOpens(k) == TokensNext(k) = "("

ColumnListSkipped(k) == TokensReturn(TokensTake(k))

\* parseTableConstraint, case "CONSTRAINT": the keyword and the name are taken
ConstraintName ==
    /\ Running("parseCreateTable")
    /\ mark' = i
    /\ TokensNext(i) = "CONSTRAINT"
    /\ Continue(TokensTake(TokensTake(i)), stack)
    /\ UNCHANGED <<tokens, tables, t, c, strict, loopVar, comment, cols, paren, dtTok, sql, pos, token, call, prev>>

\* parseTableConstraint, case "PRIMARY KEY": up to parseColumnList's loop; the
\* error SetPrimaryKeys returns is dropped
ConstraintPrimaryKey ==
    /\ Running("parseCreateTable")
    /\ mark' = i
    /\ TokensNext(i) \in ConstraintWords \ {"CONSTRAINT"}
    /\ TokensNextN(i, 2) = "PRIMARY KEY"
    /\ LET k == TokensTakeN(i, 2)
       IN  IF ColumnListOpens(k)
           THEN /\ Continue(TokensTake(k), <<"parseColumnList/primaryKey">> \o stack)
                /\ cols' = <<>>
                /\ t' = t
           ELSE /\ Continue(ColumnListSkipped(k), stack)
                /\ cols' = cols
                /\ t' = SetPrimaryKeys(t, <<>>).t
    /\ UNCHANGED <<tokens, tables, c, strict, loopVar, comment, paren, dtTok, sql, pos, token, call, prev>>

\* parseTableConstraint, case "UNIQUE": up to parseColumnList's loop
ConstraintUnique ==
    /\ Running("parseCreateTable")
    /\ mark' = i
    /\ TokensNext(i) = "UNIQUE"
    /\ LET k == TokensTake(i)
       IN  IF ColumnListOpens(k)
           THEN Continue(TokensTake(k), <<"parseColumnList/unique">> \o stack)
                /\ cols' = <<>>
           ELSE Continue(ColumnListSkipped(k), stack) /\ cols' = cols
    /\ UNCHANGED <<tokens, tables, t, c, strict, loopVar, comment, paren, dtTok, sql, pos, token, call, prev>>

\* parseTableConstraint, case "CHECK": parseCheckConstraint up to its loop
ConstraintCheck ==
    /\ Running("parseCreateTable")
    /\ mark' = i
    /\ TokensNext(i) = "CHECK"
    /\ Continue(TokensTake(i), <<"parseCheckConstraint">> \o stack)
    /\ paren' = 0
    /\ UNCHANGED <<tokens, tables, t, c, strict, loopVar, comment, cols, dtTok, sql, pos, token, call, prev>>

\* parseTableConstraint, case "FOREIGN KEY": parseForeignKeyClause up to its
\* first parseColumnList; without a list cols[0] panics
ConstraintForeignKey ==
    /\ Running("parseCreateTable")
    /\ mark' = i
    /\ TokensNext(i) = "FOREIGN"
    /\ TokensNextN(i, 2) = "FOREIGN KEY"
    /\ LET k == TokensTakeN(i, 2)
       IN  IF ColumnListOpens(k)
           THEN Continue(TokensTake(k), <<"parseColumnList/fkFrom">> \o stack)
                /\ cols' = <<>>
           ELSE Panic(ColumnListSkipped(k)) /\ cols' = cols
    /\ UNCHANGED <<tokens, tables, t, c, strict, loopVar, comment, paren, dtTok, sql, pos, token, call, prev>>

\* parseTableConstraint, no case: PRIMARY or FOREIGN without KEY.  Nothing is
\* consumed and the column loop dispatches on the same token again.
ConstraintNoMatch ==
    /\ Running("parseCreateTable")
    /\ mark' = i
    /\ TokensNext(i) \in {"PRIMARY", "FOREIGN"}
    /\ TokensNextN(i, 2) \notin {"PRIMARY KEY", "FOREIGN KEY"}
    /\ Continue(i, stack)
    /\ UNCHANGED <<tokens, tables, t, c, strict, loopVar, comment, cols, paren, dtTok, sql, pos, token, call, prev>>

-----------------------------------------------------------------------------
(* parseColumnList: the loop *)

ColumnListFrames ==
    {"parseColumnList/primaryKey", "parseColumnList/unique",
     "parseColumnList/fkFrom", "parseColumnList/fkTo"}

\* "," : the separator is taken
ListComma ==
    /\ result = "none"
    /\ Top \in ColumnListFrames
    /\ TokensNext(i) = ","
    /\ Continue(TokensTake(i), stack)
    /\ UNCHANGED <<tokens, tables, t, c, strict, loopVar, comment, cols, paren, dtTok, sql, pos, token, call, prev, mark>>

\* any other token but ")" is taken as a column name, the empty token of an
\* exhausted input too
ListName ==
    /\ result = "none"
    /\ Top \in ColumnListFrames
    /\ TokensNext(i) \notin {")", ","}
    /\ cols' = IF Len(cols) < MaxListLen THEN Append(cols, TokensNext(i)) ELSE cols
    /\ Continue(TokensTake(i), stack)
    /\ UNCHANGED <<tokens, tables, t, c, strict, loopVar, comment, paren, dtTok, sql, pos, token, call, prev, mark>>

\* ")" ends the list of PRIMARY KEY: table.SetPrimaryKeys(cols), its error
\* dropped by parseTableConstraint
ListEndPrimaryKey ==
    /\ Running("parseColumnList/primaryKey")
    /\ TokensNext(i) = ")"
    /\ t' = SetPrimaryKeys(t, cols).t
    /\ Continue(TokensTake(i), Tail(stack))
    /\ UNCHANGED <<tokens, tables, c, strict, loopVar, comment, cols, paren, dtTok, sql, pos, token, call, prev, mark>>

\* a slip that would mark the listed columns unique
ListEndUniqueMerged ==
    /\ Running("parseColumnList/unique")
    /\ TokensNext(i) = ")"
    /\ t' = [t EXCEPT !.Columns =
                [k \in DOMAIN t.Columns |->
                    IF \E n \in 1..Len(cols) : cols[n] = t.Columns[k].sqlName
                    THEN [t.Columns[k] EXCEPT !.Unique = TRUE]
                    ELSE t.Columns[k]]]
    /\ Continue(TokensTake(i), Tail(stack))
    /\ UNCHANGED <<tokens, tables, c, strict, loopVar, comment, cols, paren, dtTok, sql, pos, token, call, prev, mark>>

\* ")" ends the list of UNIQUE, which is only logged
ListEndUnique ==
    /\ Running("parseColumnList/unique")
    /\ TokensNext(i) = ")"
    /\ Continue(TokensTake(i), Tail(stack))
    /\ UNCHANGED <<tokens, tables, t, c, strict, loopVar, comment, cols, paren, dtTok, sql, pos, token, call, prev, mark>>

\* ")" ends the first list of parseForeignKeyClause, which goes on up to its
\* second parseColumnList.  Its errors return to parseCreateTable, which
\* drops them and goes on with the column loop.
ListEndFkFrom ==
    /\ Running("parseColumnList/fkFrom")
    /\ TokensNext(i) = ")"
    /\ LET k  == TokensTake(i)
           k1 == removeNewlines(k)
           k2 == TokensTake(k1)
           k3 == TokensTake(k2)
       IN  IF Len(cols) > 1 THEN Continue(k, Tail(stack)) /\ cols' = cols
           ELSE IF Len(cols) = 0 THEN Panic(k) /\ cols' = cols
           ELSE IF TokensNext(k1) # "REFERENCES"
           THEN Continue(TokensReturn(k2), Tail(stack)) /\ cols' = cols
           ELSE IF ColumnListOpens(k3)
           THEN Continue(TokensTake(k3), <<"parseColumnList/fkTo">> \o Tail(stack))
                /\ cols' = <<>>
           ELSE Continue(ColumnListSkipped(k3), <<"parseForeignKeyClause">> \o Tail(stack))
                /\ cols' = <<>>
    /\ UNCHANGED <<tokens, tables, t, c, strict, loopVar, comment, paren, dtTok, sql, pos, token, call, prev, mark>>

\* ")" ends the second list of parseForeignKeyClause
ListEndFkTo ==
    /\ Running("parseColumnList/fkTo")
    /\ TokensNext(i) = ")"
    /\ IF Len(cols) > 1
       THEN Continue(TokensTake(i), Tail(stack))
       ELSE Continue(TokensTake(i), <<"parseForeignKeyClause">> \o Tail(stack))
    /\ UNCHANGED <<tokens, tables, t, c, strict, loopVar, comment, cols, paren, dtTok, sql, pos, token, call, prev, mark>>

\* parseForeignKeyClause: the ON loop ends and the clause is only logged
FkClauseEnd ==
    /\ Running("parseForeignKeyClause")
    /\ TokensNext(i) # "ON"
    /\ Continue(i, Tail(stack))
    /\ UNCHANGED <<tokens, tables, t, c, strict, loopVar, comment, cols, paren, dtTok, sql, pos, token, call, prev, mark>>

\* parseForeignKeyClause: one ON clause; an unsupported one is an error, which
\* parseCreateTable drops
FkClauseAction ==
    /\ Running("parseForeignKeyClause")
    /\ TokensNext(i) = "ON"
    /\ LET a == parseFkAction(i)
       IN  IF a.err # "" THEN Continue(i, Tail(stack)) ELSE Continue(a.i, stack)
    /\ UNCHANGED <<tokens, tables, t, c, strict, loopVar, comment, cols, paren, dtTok, sql, pos, token, call, prev, mark>>

-----------------------------------------------------------------------------
(* parseCheckConstraint: the loop *)

CheckOpen ==
    /\ Running("parseCheckConstraint")
    /\ TokensNext(i) = "("
    /\ paren' = paren + 1
    /\ Continue(TokensTake(i), stack)
    /\ UNCHANGED <<tokens, tables, t, c, strict, loopVar, comment, cols, dtTok, sql, pos, token, call, prev, mark>>

\* ")" ends the expression when no parenthesis stays open
CheckClose ==
    /\ Running("parseCheckConstraint")
    /\ TokensNext(i) = ")"
    /\ paren' = paren - 1
    /\ Continue(TokensTake(i), IF paren' < 1 THEN Tail(stack) ELSE stack)
    /\ UNCHANGED <<tokens, tables, t, c, strict, loopVar, comment, cols, dtTok, sql, pos, token, call, prev, mark>>

\* any other token is taken, the empty token of an exhausted input too (the
\* value slice it is appended to is only logged)
CheckToken ==
    /\ Running("parseCheckConstraint")
    /\ TokensNext(i) \notin {"(", ")"}
    /\ Continue(TokensTake(i), stack)
    /\ UNCHANGED <<tokens, tables, t, c, strict, loopVar, comment, cols, paren, dtTok, sql, pos, token, call, prev, mark>>

-----------------------------------------------------------------------------
(* parseDatetimeDefault: the loop; dtTok is the token taken last *)

DatetimeOpen ==
    /\ Running("parseDatetimeDefault")
    /\ dtTok = "("
    /\ paren' = paren + 1
    /\ dtTok' = TokensNext(i)
    /\ Continue(TokensTake(i), stack)
    /\ UNCHANGED <<tokens, tables, t, c, strict, loopVar, comment, cols, sql, pos, token, call, prev, mark>>

DatetimeClose ==
    /\ Running("parseDatetimeDefault")
    /\ dtTok = ")"
    /\ paren' = paren - 1
    /\ IF paren' = 0
       THEN Continue(i, Tail(stack)) /\ dtTok' = dtTok
       ELSE Continue(TokensTake(i), stack) /\ dtTok' = TokensNext(i)
    /\ UNCHANGED <<tokens, tables, t, c, strict, loopVar, comment, cols, sql, pos, token, call, prev, mark>>

\* any other token is ignored, the empty token of an exhausted input too
DatetimeToken ==
    /\ Running("parseDatetimeDefault")
    /\ dtTok \notin {"(", ")"}
    /\ dtTok' = TokensNext(i)
    /\ Continue(TokensTake(i), stack)
    /\ UNCHANGED <<tokens, tables, t, c, strict, loopVar, comment, cols, paren, sql, pos, token, call, prev, mark>>

-----------------------------------------------------------------------------
(* parseColumn *)

\* parseCreateTable, default case: parseColumn up to its constraint loop (the
\* name, then parseColumnDataType)
BodyColumn ==
    /\ Running("parseCreateTable")
    /\ mark' = i
    /\ TokensNext(i) \notin {")", "", NL, ",", "--"} \cup ConstraintWords
    /\ LET name == removeQuotes(TokensNext(i))
           dt   == parseColumnDataType(TokensTake(i), t.Strict)
       IN  IF dt.err # ""
           THEN ParseError(dt.i, dt.err) /\ c' = c
           ELSE /\ c' = [NewColumn EXCEPT !.sqlName = name, !.Type = dt.Type]
                /\ Continue(dt.i, <<"parseColumn">> \o stack)
    /\ UNCHANGED <<tokens, tables, t, strict, loopVar, comment, cols, paren, dtTok, sql, pos, token, call, prev>>

\* ",": the end of the column definition, with an optional comment after it
ColumnComma ==
    /\ Running("parseColumn")
    /\ TokensNext(i) = ","
    /\ LET k == TokensTake(i)
       IN  IF TokensNext(k) = "--"
           THEN CallParseComment(k, "parseComment/columnEnd", stack) /\ t' = t
           ELSE /\ Continue(k, Tail(stack))
                /\ t' = AppendColumn(t, c)
                /\ comment' = comment
    /\ UNCHANGED <<tokens, tables, c, strict, loopVar, cols, paren, dtTok, sql, pos, token, call, prev, mark>>

\* ")": the end of the table definition, which is not consumed
ColumnClose ==
    /\ Running("parseColumn")
    /\ TokensNext(i) = ")"
    /\ t' = AppendColumn(t, c)
    /\ Continue(i, Tail(stack))
    /\ UNCHANGED <<tokens, tables, c, strict, loopVar, comment, cols, paren, dtTok, sql, pos, token, call, prev, mark>>

ColumnNewline ==
    /\ Running("parseColumn")
    /\ TokensNext(i) = NL
    /\ Continue(TokensTake(i), stack)
    /\ UNCHANGED <<tokens, tables, t, c, strict, loopVar, comment, cols, paren, dtTok, sql, pos, token, call, prev, mark>>

ColumnComment ==
    /\ Running("parseColumn")
    /\ TokensNext(i) = "--"
    /\ CallParseComment(i, "parseComment/column", stack)
    /\ UNCHANGED <<tokens, tables, t, c, strict, loopVar, cols, paren, dtTok, sql, pos, token, call, prev, mark>>

\* a slip that would leave the column nullable
SetNotNullDropped(col) == col

\* the column after the NOT NULL constraint
SetNotNull(col) == [col EXCEPT !.Nullable = FALSE]

ColumnNotNull ==
    /\ Running("parseColumn")
    /\ TokensNext(i) = "NOT"
    /\ IF TokensNextN(i, 2) # "NOT NULL"
       THEN ParseError(i, "column constraint must be 'NOT NULL'") /\ c' = c
       ELSE Continue(TokensTakeN(i, 2), stack) /\ c' = SetNotNull(c)
    /\ UNCHANGED <<tokens, tables, t, strict, loopVar, comment, cols, paren, dtTok, sql, pos, token, call, prev, mark>>

\* the column after the inline PRIMARY KEY constraint
SetInlinePrimaryKey(col) == [col EXCEPT !.PrimaryKey = TRUE]

ColumnPrimaryKey ==
    /\ Running("parseColumn")
    /\ TokensNext(i) = "PRIMARY"
    /\ IF TokensNextN(i, 2) # "PRIMARY KEY"
       THEN ParseError(i, "column constraint must be 'PRIMARY KEY'") /\ c' = c
       ELSE Continue(TokensTakeN(i, 2), stack) /\ c' = SetInlinePrimaryKey(c)
    /\ UNCHANGED <<tokens, tables, t, strict, loopVar, comment, cols, paren, dtTok, sql, pos, token, call, prev, mark>>

\* a slip that would take AUTOINCREMENT without a primary key
ColumnAutoIncrementAnywhere ==
    /\ Running("parseColumn")
    /\ TokensNext(i) = "AUTOINCREMENT"
    /\ Continue(TokensTake(i), stack)
    /\ UNCHANGED <<tokens, tables, t, c, strict, loopVar, comment, cols, paren, dtTok, sql, pos, token, call, prev, mark>>

\* "AUTOINCREMENT": taken when the column has PRIMARY KEY, else an error
ColumnAutoIncrement ==
    /\ Running("parseColumn")
    /\ TokensNext(i) = "AUTOINCREMENT"
    /\ IF c.PrimaryKey
       THEN Continue(TokensTake(i), stack)
       ELSE ParseError(i, "column constraint 'AUTOINCREMENT' must follow 'PRIMARY KEY'")
    /\ UNCHANGED <<tokens, tables, t, c, strict, loopVar, comment, cols, paren, dtTok, sql, pos, token, call, prev, mark>>

ColumnUnique ==
    /\ Running("parseColumn")
    /\ TokensNext(i) = "UNIQUE"
    /\ c' = [c EXCEPT !.Unique = TRUE]
    /\ Continue(TokensTake(i), stack)
    /\ UNCHANGED <<tokens, tables, t, strict, loopVar, comment, cols, paren, dtTok, sql, pos, token, call, prev, mark>>

\* a slip that would always take the referencing column's own name
parseForeignKeyOwnName(k, col) ==
    LET k1 == TokensTake(k)
        k2 == TokensTake(k1)
        given == TokensNext(k2) = "(" /\ TokensPeek(k2, 2) = ")"
    IN  [fk |-> [IsNil |-> FALSE, Table |-> TokensNext(k1), Column |-> col.sqlName,
                 OnUpdate |-> "NoAction", OnDelete |-> "NoAction"],
         i |-> IF given THEN TokensTakeN(k2, 3) ELSE k2]

\* parseForeignKey: the ForeignKey of column col for REFERENCES at cursor k, and
\* the cursor after the table and the optional ( column )
parseForeignKey(k, col) ==
    LET k1 == TokensTake(k)
        k2 == TokensTake(k1)
        given == TokensNext(k2) = "(" /\ TokensPeek(k2, 2) = ")"
    IN  [fk |-> [IsNil |-> FALSE,
                 Table |-> TokensNext(k1),
                 Column |-> IF given THEN TokensPeek(k2, 1) ELSE col.sqlName,
                 OnUpdate |-> "NoAction", OnDelete |-> "NoAction"],
         i |-> IF given THEN TokensTakeN(k2, 3) ELSE k2]

\* "REFERENCES": parseForeignKey up to its ON loop
ColumnReferences ==
    /\ Running("parseColumn")
    /\ TokensNext(i) = "REFERENCES"
    /\ IF TokensPeek(i, 1) = ""
       THEN /\ ParseError(i, "column foreign key constraint 'REFERENCES' must be followed by a table name")
            /\ c' = c
       ELSE /\ c' = [c EXCEPT !.ForeignKey = parseForeignKey(i, c).fk]
            /\ Continue(parseForeignKey(i, c).i, <<"parseForeignKey">> \o stack)
    /\ UNCHANGED <<tokens, tables, t, strict, loopVar, comment, cols, paren, dtTok, sql, pos, token, call, prev, mark>>

\* parseForeignKey: the ON loop ends
FkEnd ==
    /\ Running("parseForeignKey")
    /\ TokensNext(i) # "ON"
    /\ Continue(i, Tail(stack))
    /\ UNCHANGED <<tokens, tables, t, c, strict, loopVar, comment, cols, paren, dtTok, sql, pos, token, call, prev, mark>>

\* parseForeignKey: one ON clause
FkAction ==
    /\ Running("parseForeignKey")
    /\ TokensNext(i) = "ON"
    /\ LET a == parseFkAction(i)
       IN  IF a.err # ""
           THEN ParseError(i, a.err) /\ c' = c
           ELSE /\ c' = [c EXCEPT !.ForeignKey = ApplyFkAction(@, a)]
                /\ Continue(a.i, stack)
    /\ UNCHANGED <<tokens, tables, t, strict, loopVar, comment, cols, paren, dtTok, sql, pos, token, call, prev, mark>>

\* "CHECK": parseCheckConstraint up to its loop
ColumnCheck ==
    /\ Running("parseColumn")
    /\ TokensNext(i) = "CHECK"
    /\ paren' = 0
    /\ Continue(TokensTake(i), <<"parseCheckConstraint">> \o stack)
    /\ UNCHANGED <<tokens, tables, t, c, strict, loopVar, comment, cols, dtTok, sql, pos, token, call, prev, mark>>

\* "DEFAULT" on an INT column, the literal at cursor k
DefaultIntAt(k, col) ==
    LET tok == TokensNext(k)
    IN  IF tok = "NULL" THEN [err |-> "", c |-> col, i |-> TokensTake(k)]
        ELSE IF ~ParseInt(tok).ok
        THEN [err |-> "default value for INT/INTEGER must be a valid base 10 integer or NULL",
              c |-> col, i |-> TokensTake(k)]
        ELSE [err |-> "", i |-> TokensTake(k),
              c |-> [col EXCEPT !.DefaultInt = [Valid |-> TRUE, Int64 |-> ParseInt(tok).val]]]

\* a slip that would store the literal with its quotes
DefaultTextAtQuoted(k, col) ==
    [err |-> "", i |-> TokensTake(k),
     c |-> [col EXCEPT !.DefaultString = [Valid |-> TRUE, String |-> TokensNext(k)]]]

\* "DEFAULT" on a TEXT column: the token compared with "NULL" is the outer
\* one, which is "DEFAULT", so the literal is always taken and stored
DefaultTextAt(k, col) ==
    [err |-> "", i |-> TokensTake(k),
     c |-> [col EXCEPT !.DefaultString =
                [Valid |-> TRUE, String |-> removeQuotes(TokensNext(k))]]]

\* a slip that would store a BOOL column's default as an integer
DefaultBoolAtAsInt(k, col) ==
    [err |-> "", i |-> TokensTake(k),
     c |-> [col EXCEPT !.DefaultInt = [Valid |-> TRUE, Int64 |-> 1]]]

\* "DEFAULT" on a BOOL column, the literal at cursor k, alone or as ( literal )
DefaultBoolAt(k, col) ==
    LET k1 == TokensTake(k)
        wrapped == TokensNext(k) = "(" /\ TokensPeek(k1, 1) = ")"
        tok == IF wrapped THEN TokensNext(k1) ELSE TokensNext(k)
        k2 == IF wrapped THEN TokensTake(TokensTake(k1)) ELSE k1
    IN  CASE tok = "NULL" -> [err |-> "", c |-> col, i |-> k2]
          [] tok \in {"true", "TRUE", "1"} ->
                [err |-> "", i |-> k2,
                 c |-> [col EXCEPT !.DefaultBool = [Valid |-> TRUE, Bool |-> TRUE]]]
          [] tok \in {"false", "FALSE", "0"} ->
                [err |-> "", i |-> k2,
                 c |-> [col EXCEPT !.DefaultBool = [Valid |-> TRUE, Bool |-> FALSE]]]
          [] OTHER ->
                [err |-> "default value for BOOL/BOOLEAN must be TRUE/true/1 or FALSE/false/0",
                 c |-> col, i |-> k2]

\* "DEFAULT" on an INT, TEXT or BOOL column
ColumnDefault ==
    /\ Running("parseColumn")
    /\ TokensNext(i) = "DEFAULT"
    /\ c.Type \in {"int", "text", "bool"}
    /\ LET k == TokensTake(i)
           d == CASE c.Type = "int" -> DefaultIntAt(k, c)
                  [] c.Type = "text" -> DefaultTextAt(k, c)
                  [] c.Type = "bool" -> DefaultBoolAt(k, c)
       IN  IF d.err # ""
           THEN ParseError(d.i, d.err) /\ c' = c
           ELSE Continue(d.i, stack) /\ c' = d.c
    /\ UNCHANGED <<tokens, tables, t, strict, loopVar, comment, cols, paren, dtTok, sql, pos, token, call, prev, mark>>

\* "DEFAULT" on a DATETIME column: parseDatetimeDefault up to its loop
ColumnDefaultDatetime ==
    /\ Running("parseColumn")
    /\ TokensNext(i) = "DEFAULT"
    /\ c.Type = "datetime"
    /\ LET k == TokensTake(i)
       IN  /\ dtTok' = TokensNext(k)
           /\ IF dtTok' = "NULL"
              THEN Continue(TokensTake(k), stack) /\ paren' = paren
              ELSE Continue(TokensTake(k), <<"parseDatetimeDefault">> \o stack) /\ paren' = 0
    /\ UNCHANGED <<tokens, tables, t, c, strict, loopVar, comment, cols, sql, pos, token, call, prev, mark>>

\* "DEFAULT" on a column of any other type
ColumnDefaultUnsupported ==
    /\ Running("parseColumn")
    /\ TokensNext(i) = "DEFAULT"
    /\ c.Type \notin {"int", "text", "bool", "datetime"}
    /\ ParseError(TokensTake(i), "default values for this type are not supported")
    /\ UNCHANGED <<tokens, tables, t, c, strict, loopVar, comment, cols, paren, dtTok, sql, pos, token, call, prev, mark>>

\* the tokens parseColumn's constraint loop knows
ColumnWords ==
    {",", ")", NL, "--", "NOT", "PRIMARY", "AUTOINCREMENT", "UNIQUE", "REFERENCES",
     "CHECK", "DEFAULT"}

\* any other token, the empty token of an exhausted input too
ColumnUnrecognized ==
    /\ Running("parseColumn")
    /\ TokensNext(i) \notin ColumnWords
    /\ ParseError(i, "unrecognized column constraint")
    /\ UNCHANGED <<tokens, tables, t, c, strict, loopVar, comment, cols, paren, dtTok, sql, pos, token, call, prev, mark>>

-----------------------------------------------------------------------------
(* The specification *)

Next ==
    \/ ParseNewline \/ ParseEnd \/ ParseCreateTable \/ ParseCreateIndex
    \/ ParseUnsupported
    \/ IndexEnd \/ IndexToken \/ IndexUnterminated
    \/ CommentToken \/ CommentEndTable \/ CommentEndBody \/ CommentEndColumn
    \/ CommentEndColumnEnd
    \/ BodyClose \/ BodyEnd \/ BodySkip \/ BodyComment \/ BodyColumn
    \/ ConstraintName \/ ConstraintPrimaryKey \/ ConstraintUnique
    \/ ConstraintCheck \/ ConstraintForeignKey \/ ConstraintNoMatch
    \/ ListComma \/ ListName \/ ListEndPrimaryKey \/ ListEndUnique
    \/ ListEndFkFrom \/ ListEndFkTo \/ FkClauseEnd \/ FkClauseAction
    \/ CheckOpen \/ CheckClose \/ CheckToken
    \/ DatetimeOpen \/ DatetimeClose \/ DatetimeToken
    \/ ColumnComma \/ ColumnClose \/ ColumnNewline \/ ColumnComment
    \/ ColumnNotNull \/ ColumnPrimaryKey \/ ColumnAutoIncrement \/ ColumnUnique
    \/ ColumnReferences \/ FkEnd \/ FkAction \/ ColumnCheck
    \/ ColumnDefault \/ ColumnDefaultDatetime \/ ColumnDefaultUnsupported
    \/ ColumnUnrecognized

Spec == Init /\ [][Next]_vars

\* a text that Lex cuts into the tokens tk: the tokens one space apart, the
\* newline token written as a line end (Lex itself adds the last one)
RECURSIVE Unlex(_)
Unlex(tk) ==
    IF Len(tk) <= 1 THEN ""
    ELSE (IF Head(tk) = NL THEN "\n" ELSE Head(tk))
         \o (IF Len(tk) > 2 THEN " " ELSE "")
         \o Unlex(Tail(tk))

\* the schema texts handed to Parse
Texts == LexTexts \cup {Unlex(tk) : tk \in Inputs}

\* Parse(sql) from the text on: Lex, then the statements
InitText ==
    /\ sql \in Texts
    /\ pos = 0
    /\ token = ""
    /\ call = NoCall
    /\ prev = NoParse
    /\ mark = 0
    /\ tokens = <<>>
    /\ i = 0
    /\ stack = <<"Lex", "Parse">>
    /\ tables = <<>>
    /\ t = NewTable
    /\ c = NewColumn
    /\ strict = FALSE
    /\ loopVar \in LoopVarSemantics
    /\ comment = <<>>
    /\ cols = <<>>
    /\ paren = 0
    /\ dtTok = ""
    /\ result = "none"
    /\ retTables = <<>>
    /\ err = ""

NextText == NextLex \/ Next

SpecText == InitText /\ [][NextText]_vars

\* Parse runs to completion on its own: a step that can be taken is taken
FairSpec == Spec /\ WF_vars(Next)

-----------------------------------------------------------------------------
(* parseColumnDataType on its own, in both modes: parseColumn has taken the  *)
(* column name "a" and hands the tokens and its strict parameter on.         *)

\* the tokens tried as the type
TypeTokens ==
    {"INT", "INTEGER", "FLOAT", "REAL", "TEXT", "BLOB", "ANY", "BOOL", "BOOLEAN",
     "DATETIME", "TIMESTAMP", "INTERGER", "VARCHAR", ",", ")"}

\* what follows the type
FollowTokens == {<<>>, <<NL>>, <<",", NL>>, <<")", NL>>, <<"NOT", "NULL", NL>>}

DataTypeInputs ==
    { <<"a">> \o ty \o fo : ty \in {<<x>> : x \in TypeTokens} \cup {<<>>}, fo \in FollowTokens }

InitDataType ==
    /\ tokens \in DataTypeInputs
    /\ i = 1
    /\ stack = <<"parseColumnDataType">>
    /\ tables = <<>>
    /\ t = NewTable
    /\ c = [NewColumn EXCEPT !.sqlName = "a"]
    /\ strict \in BOOLEAN
    /\ loopVar \in LoopVarSemantics
    /\ comment = <<>>
    /\ cols = <<>>
    /\ paren = 0
    /\ dtTok = ""
    /\ result = "none"
    /\ retTables = <<>>
    /\ err = ""
    /\ sql = ""
    /\ pos = 0
    /\ token = ""
    /\ call = NoCall
    /\ prev = NoParse
    /\ mark = 0

\* parseColumnDataType(tokens, &c, strict): the type is stored in the column
\* unless an error is returned
ResolveDataType ==
    /\ Running("parseColumnDataType")
    /\ LET dt == parseColumnDataType(i, strict)
       IN  /\ i' = dt.i
           /\ err' = dt.err
           /\ result' = IF dt.err # "" THEN "err" ELSE "ok"
           /\ c' = IF dt.err # "" THEN c ELSE [c EXCEPT !.Type = dt.Type]
    /\ stack' = <<>>
    /\ UNCHANGED <<tokens, tables, t, strict, loopVar, comment, cols, paren, dtTok, retTables, sql, pos, token, call, prev, mark>>

NextDataType == ResolveDataType

SpecDataType == InitDataType /\ [][NextDataType]_vars

-----------------------------------------------------------------------------
(* Properties *)

\* the tables Parse returned without an error
ReturnedTables == IF result = "ok" THEN {retTables[n] : n \in 1..Len(retTables)} ELSE {}

ColumnIndexes(tbl) == 1..Len(tbl.Columns)

\* C1: for every input Parse terminates: it eventually returns a table list or
\* an error, also when the input ends in the middle of a construct.  (A loop
\* that takes from the exhausted tokens repeats one and the same iteration:
\* the run goes on for ever in an unchanged parser state.)
C1_ParseTerminates == <>(result # "none")

\* C2: Parse returns either its table list and no error, or an error and no
\* table list (the tables of earlier statements are dropped), and no parser
\* frame stays active after the failure.
C2_TablesOrError ==
    /\ result = "ok" => (err = "" /\ retTables = tables /\ stack = <<>>)
    /\ result = "err" => (err # "" /\ retTables = <<>> /\ stack = <<>>)

\* C2 witness: a statement fails after an earlier statement gave a table
C2_FailureAfterTable == result = "err" /\ Len(tables) > 0

\* C3: when the list of a table-level PRIMARY KEY names a column the table
\* does not have yet, Parse returns an error and no table.
C3_UndefinedKeyColumnFails ==
    [][ ( /\ Running("parseColumnList/primaryKey")
          /\ TokensNext(i) = ")"
          /\ \E n \in 1..Len(cols) : FindColumn(t.Columns, cols[n], 1) = 0 )
        => (result' = "err" /\ retTables' = <<>>) ]_vars

\* C4: in every table Parse returns at most one column has PrimaryKey set, and
\* when one has, no column has CompositePrimaryKey set.
C4_KeyFlagsExclusive ==
    \A tbl \in ReturnedTables :
        /\ Cardinality({k \in ColumnIndexes(tbl) : tbl.Columns[k].PrimaryKey}) <= 1
        /\ (\E k \in ColumnIndexes(tbl) : tbl.Columns[k].PrimaryKey)
              => ~(\E k \in ColumnIndexes(tbl) : tbl.Columns[k].CompositePrimaryKey)

\* the table has exactly one primary-key column, column k
SinglePrimaryKey(tbl, k) ==
    /\ k \in ColumnIndexes(tbl)
    /\ tbl.Columns[k].PrimaryKey
    /\ \A j \in ColumnIndexes(tbl) \ {k} : ~tbl.Columns[j].PrimaryKey
    /\ \A j \in ColumnIndexes(tbl) : ~tbl.Columns[j].CompositePrimaryKey

NamedIndexes(tbl, names) ==
    {FindColumn(tbl.Columns, names[n], 1) : n \in 1..Len(names)}

\* pks holds exactly the columns of tbl at the indexes S, in table order
InDeclarationOrder(pks, tbl, S) ==
    /\ Len(pks) = Cardinality(S)
    /\ \E f \in [1..Len(pks) -> S] :
          /\ \A m, n \in 1..Len(pks) : m < n => f[m] < f[n]
          /\ \A n \in 1..Len(pks) : pks[n] = tbl.Columns[f[n]]

\* the ")" that ends the list of a table-level PRIMARY KEY naming two or more
\* columns, all defined, in a table without key flags so far
CompositeKeyDeclared ==
    /\ Running("parseColumnList/primaryKey")
    /\ TokensNext(i) = ")"
    /\ Len(cols) >= 2
    /\ 0 \notin NamedIndexes(t, cols)
    /\ \A k \in ColumnIndexes(t) :
          ~t.Columns[k].PrimaryKey /\ ~t.Columns[k].CompositePrimaryKey

NotNullStep == Running("parseColumn") /\ TokensNextN(i, 2) = "NOT NULL"

\* the step starts a new column or a new table
NewColumnStep == Running("parseCreateTable") \/ Running("Parse")

\* the step carries field F of the columns from c into the table and from the
\* table into Parse's list: the column appended is the column under
\* construction, and the columns already in the table keep F
FieldCarried(F(_)) ==
    /\ ~NewColumnStep =>
          /\ Len(t'.Columns) \in {Len(t.Columns), Len(t.Columns) + 1}
          /\ \A k \in ColumnIndexes(t) : F(t'.Columns[k]) = F(t.Columns[k])
          /\ Len(t'.Columns) = Len(t.Columns) + 1 => t'.Columns[Len(t'.Columns)] = c'
    /\ Running("parseCreateTable") =>
          /\ \A k \in ColumnIndexes(t) : k \in ColumnIndexes(t') /\ F(t'.Columns[k]) = F(t.Columns[k])
    /\ tables' # tables => tables' = Append(tables, t)
    /\ result' = "ok" => retTables' = tables'

NullableOf(col) == col.Nullable

\* C7: a column's Nullable is false exactly when its definition has the NOT
\* NULL constraint: a column starts with Nullable = true, only the NOT NULL
\* constraint changes it, to false (PRIMARY KEY does not), and the column
\* reaches the returned table with it.
C7_NullableIffNotNull ==
    [][ /\ (Running("parseCreateTable") /\ c' # c) => c'.Nullable
        /\ (NotNullStep /\ result' = "none") => ~c'.Nullable
        /\ (~NotNullStep /\ ~NewColumnStep) => c'.Nullable = c.Nullable
        /\ FieldCarried(NullableOf) ]_vars

\* C7 witness: Parse returned a primary-key column that is nullable next to a
\* NOT NULL column
C7_NullableKeyReturned ==
    \E tbl \in ReturnedTables :
        /\ Len(tbl.Columns) = 2
        /\ tbl.Columns[1].PrimaryKey /\ tbl.Columns[1].Nullable
        /\ ~tbl.Columns[2].Nullable

\* SQLite's STRICT column types
StrictTypes == {"INT", "INTEGER", "FLOAT", "REAL", "TEXT", "BLOB", "ANY"}

\* the types parseColumnDataType knows
KnownTypes == StrictTypes \cup {"BOOL", "BOOLEAN", "DATETIME", "TIMESTAMP"}

\* parseColumnDataType has returned for the type token after the name
DataTypeResolved == result # "none" /\ Len(tokens) >= 1 /\ tokens[1] = "a"

\* C8 as stated: in strict mode every token outside INT, INTEGER, FLOAT, REAL,
\* TEXT, BLOB, ANY is an error and never gives the column type BLOB; in
\* non-strict mode an unrecognised token resolves to BLOB without error.
C8_StrictRejectsEveryOtherToken ==
    DataTypeResolved =>
        /\ (strict /\ TokensNext(1) \notin StrictTypes)
              => (result = "err" /\ c.Type # "blob")
        /\ (~strict /\ TokensNext(1) \notin KnownTypes)
              => (result = "ok" /\ err = "" /\ c.Type = "blob")

\* C8 amended: as C8, except that in strict mode the tokens "," and ")" (the
\* type is left out) resolve to BLOB without error and are handed back.
C8_StrictRejectsExceptOmittedType ==
    DataTypeResolved =>
        /\ (strict /\ TokensNext(1) \notin StrictTypes \cup {",", ")"})
              => (result = "err" /\ err # "" /\ c.Type # "blob")
        /\ (strict /\ TokensNext(1) \in {",", ")"})
              => (result = "ok" /\ err = "" /\ c.Type = "blob" /\ i = 1)
        /\ (~strict /\ TokensNext(1) \notin KnownTypes)
              => (result = "ok" /\ err = "" /\ c.Type = "blob")

\* C8 witness: the misspelt INTERGER was refused in strict mode
C8_MisspellingRefused ==
    DataTypeResolved /\ strict /\ TokensNext(1) = "INTERGER" /\ result = "err"

\* C9: a column whose type keyword is not a valid type makes Parse fail.
C9_InvalidTypeFails ==
    [][ ( /\ Running("parseCreateTable")
          /\ TokensNext(i) \notin {")", "", NL, ",", "--"} \cup ConstraintWords
          /\ TokensPeek(i, 1) \notin KnownTypes \cup {",", ")", "", NL, "--"} )
        => result' = "err" ]_vars

\* the step is parseColumn's REFERENCES constraint with a table name
ReferencesStep ==
    Running("parseColumn") /\ TokensNext(i) = "REFERENCES" /\ TokensPeek(i, 1) # ""

ReferenceOf(col) == <<col.ForeignKey.IsNil, col.ForeignKey.Table, col.ForeignKey.Column>>

\* C10: an inline REFERENCES table [(column)] gives the column a ForeignKey
\* whose Table is the token after REFERENCES and whose Column is the single
\* token in the parentheses when there is one, else the column's own SQL
\* name; the column reaches the returned table with it.
C10_InlineReference ==
    [][ /\ ReferencesStep =>
              /\ result' = "none"
              /\ ~c'.ForeignKey.IsNil
              /\ c'.ForeignKey.Table = TokensPeek(i, 1)
              /\ c'.ForeignKey.Column =
                    IF TokensPeek(i, 2) = "(" /\ TokensPeek(i, 4) = ")"
                    THEN TokensPeek(i, 3) ELSE c.sqlName
        /\ (~ReferencesStep /\ ~NewColumnStep) => ReferenceOf(c') = ReferenceOf(c)
        /\ FieldCarried(ReferenceOf) ]_vars

\* C10 witness: Parse returned column a with the reference p(id) it declared
C10_ReferenceReturned ==
    \E tbl \in ReturnedTables :
        /\ tbl.Columns[1].sqlName = "a"
        /\ ~tbl.Columns[1].ForeignKey.IsNil
        /\ tbl.Columns[1].ForeignKey.Table = "p"
        /\ tbl.Columns[1].ForeignKey.Column = "id"

\* the step is one ON clause of an inline REFERENCES
OnClauseStep == Running("parseForeignKey") /\ TokensNext(i) = "ON"

\* the ON clause at cursor k is one of ON UPDATE|DELETE CASCADE|SET NULL|SET DEFAULT
SupportedClause(k) ==
    /\ TokensPeek(k, 1) \in {"UPDATE", "DELETE"}
    /\ \/ TokensPeek(k, 2) = "CASCADE"
       \/ TokensPeek(k, 2) = "SET" /\ TokensPeek(k, 3) \in {"NULL", "DEFAULT"}

\* the action the supported ON clause at cursor k names
ClauseAction(k) ==
    IF TokensPeek(k, 2) = "CASCADE" THEN "Cascade"
    ELSE IF TokensPeek(k, 3) = "NULL" THEN "SetNull" ELSE "SetDefault"

ActionsOf(col) == <<col.ForeignKey.OnUpdate, col.ForeignKey.OnDelete>>

\* C11: an ON UPDATE clause of a foreign key changes only OnUpdate and an ON
\* DELETE clause only OnDelete, to Cascade, SetNull or SetDefault as written;
\* both start as NoAction, nothing else changes them, and no ON clause
\* changes the referenced Table or Column.
C11_OnClauseSetsItsField ==
    [][ /\ ReferencesStep => ActionsOf(c') = <<"NoAction", "NoAction">>
        /\ (OnClauseStep /\ result' = "none") =>
              /\ SupportedClause(i)
              /\ ReferenceOf(c') = ReferenceOf(c)
              /\ IF TokensPeek(i, 1) = "UPDATE"
                 THEN ActionsOf(c') = <<ClauseAction(i), c.ForeignKey.OnDelete>>
                 ELSE ActionsOf(c') = <<c.ForeignKey.OnUpdate, ClauseAction(i)>>
        /\ (~OnClauseStep /\ ~ReferencesStep /\ ~NewColumnStep) => ActionsOf(c') = ActionsOf(c)
        /\ FieldCarried(ActionsOf) ]_vars

\* C11 witness: Parse returned a column whose foreign key has OnUpdate =
\* SetDefault and OnDelete = SetNull from two clauses
C11_BothActionsReturned ==
    \E tbl \in ReturnedTables :
        /\ ReferenceOf(tbl.Columns[1]) = <<FALSE, "p", "a">>
        /\ ActionsOf(tbl.Columns[1]) = <<"SetDefault", "SetNull">>

\* C12: an ON clause after an inline REFERENCES that is not ON UPDATE|DELETE
\* with CASCADE, SET NULL or SET DEFAULT makes Parse fail with an error, and
\* parseFkAction consumes no token of it (the cursor Parse ends with is the
\* clause's position moved back by printContext).
C12_UnsupportedClauseFails ==
    [][ (OnClauseStep /\ ~SupportedClause(i)) =>
          /\ result' = "err" /\ err' # "" /\ retTables' = <<>>
          /\ c' = c
          /\ i' = TokensReturnN(i, 10) ]_vars

\* C12 witness: Parse failed at ON DELETE RESTRICT after a supported clause
C12_RestrictRefused ==
    /\ result = "err"
    /\ c.ForeignKey.OnUpdate = "Cascade"
    /\ \E k \in 10..Len(tokens) :
          /\ i = k - 10
          /\ TokensNextN(k, 3) = "ON DELETE RESTRICT"

\* the tokens that are no table name
NoNameTokens == {",", ")", "(", ";", NL, ""}

\* C13: Parse never returns a column whose ForeignKey.Table is a punctuation
\* token, a newline token or the empty string: an inline REFERENCES without a
\* table name is an error.
C13_ReferencesNeedsTable ==
    \A tbl \in ReturnedTables : \A k \in ColumnIndexes(tbl) :
        ~tbl.Columns[k].ForeignKey.IsNil => tbl.Columns[k].ForeignKey.Table \notin NoNameTokens

\* s holds sub
Contains(s, sub) ==
    \E k \in 1..(Len(s) - Len(sub) + 1) : SubSeq(s, k, k + Len(sub) - 1) = sub

\* Lex has returned the tokens of the text
Lexed == pos = Len(sql) /\ Top # "Lex"

\* C14: Lex emits the sequence -- as a token of its own wherever it occurs in
\* a line, closing the token in progress: a text with -- gives a "--" token,
\* and no other token holds --.
C14_CommentDelimiterIsAToken ==
    Lexed =>
        /\ Contains(sql, "--") => \E k \in 1..Len(tokens) : tokens[k] = "--"
        /\ \A k \in 1..Len(tokens) : tokens[k] # "--" => ~Contains(tokens[k], "--")

\* the cursor of the first "--" on the line that ends at cursor k
DelimiterBefore(k) ==
    CHOOSE j \in 0..(k - 1) :
        /\ TokensNext(j) = "--"
        /\ \A m \in (j + 1)..(k - 1) : TokensNext(m) # NL
        /\ \A m \in 0..(j - 1) :
              TokensNext(m) = "--" => \E n \in (m + 1)..(j - 1) : TokensNext(n) = NL

\* the comment of the line that ends at cursor k: the tokens after the
\* delimiter, single spaces between them
LineComment(k) == Join(SubSeq(tokens, DelimiterBefore(k) + 2, k))

\* parseComment reaches the end of the line for parseColumn
ColumnCommentEnds ==
    /\ result = "none"
    /\ Top \in {"parseComment/column", "parseComment/columnEnd"}
    /\ TokensNext(i) = NL

CommentOf(col) == col.Comment

TableNameAt(k) == CHOOSE j \in k..length : TokensPeek(j, 1) = "(" /\ \A m \in k..j : TokensNext(m) # "("

\* parseCreateTable is entered and gets to its column loop
TableStarts ==
    Running("Parse") /\ TokensNextN(i, 2) = "CREATE TABLE" /\ TokensNext(i) # NL

\* C16: a -- comment directly after the opening parenthesis of CREATE TABLE,
\* on the same line, becomes the Table's Comment, its tokens up to the end of
\* the line joined by single spaces; the table's name has its quotes
\* stripped; the comment goes to no column.
C16_TableComment ==
    [][ /\ (TableStarts /\ result' = "none" /\ \E j \in i..length : TokensNext(j) = "(") =>
              /\ t'.sqlName = removeQuotes(TokensNext(TableNameAt(i)))
              /\ t'.Comment = ""
              /\ t'.Columns = <<>>
        /\ (Running("parseComment/table") /\ TokensNext(i) = NL) =>
              /\ TokensNext(DelimiterBefore(i) - 1) = "("
              /\ t'.Comment = LineComment(i)
              /\ t'.sqlName = t.sqlName
              /\ t'.Columns = <<>>
              /\ c' = c
        /\ (~Running("Parse") /\ ~(Running("parseComment/table") /\ TokensNext(i) = NL)) =>
              t'.Comment = t.Comment
        /\ tables' # tables => tables' = Append(tables, t)
        /\ result' = "ok" => retTables' = tables' ]_vars

\* C16 witness: Parse returned the table written "v" with the comment of its
\* first line and a column without comment
C16_TableCommentReturned ==
    \E tbl \in ReturnedTables :
        /\ tbl.sqlName = "v"
        /\ tbl.Comment = "Hello world!"
        /\ Len(tbl.Columns) = 1
        /\ tbl.Columns[1].Comment = ""

\* the statement at cursor k is a CREATE INDEX or CREATE UNIQUE INDEX
IndexStatementAt(k) ==
    TokensNextN(k, 2) = "CREATE INDEX" \/ TokensNextN(k, 3) = "CREATE UNIQUE INDEX"

\* C17: a CREATE [UNIQUE] INDEX ...; statement adds no Table and changes no
\* Table: from its CREATE to its semicolon, which ends it, every step takes
\* one token and leaves Parse's table list and the tables in it as they are,
\* so that Parse goes on behind the semicolon as if the statement were not
\* there.
C17_IndexChangesNoTable ==
    [][ /\ (Running("Parse") /\ TokensNext(i) # NL /\ IndexStatementAt(i)) =>
              /\ result' = "none" /\ Top' = "parseCreateIndex"
              /\ i' = i + 1
              /\ tables' = tables /\ t' = t /\ c' = c
        /\ (Running("parseCreateIndex") /\ TokensNext(i) # "") =>
              /\ result' = "none"
              /\ i' = i + 1
              /\ tables' = tables /\ t' = t /\ c' = c
              /\ IF TokensNext(i) = ";" THEN Top' = "Parse" ELSE Top' = "parseCreateIndex"
        /\ (Running("parseCreateIndex") /\ TokensNext(i) = "") =>
              result' = "err" /\ retTables' = <<>> ]_vars

\* C17 witness: Parse returned two tables of a schema with an index statement
\* between them
C17_IndexBetweenTables ==
    /\ result = "ok"
    /\ Len(retTables) = 2
    /\ \E k \in 1..Len(tokens) :
          /\ tokens[k] = "INDEX"
          /\ \E m \in 1..(k - 1) : tokens[m] = "TABLE"
          /\ \E m \in (k + 1)..Len(tokens) : tokens[m] = "TABLE"

\* C18: at statement level, newlines skipped and input left, Parse fails with
\* the 'unsupported statement' error exactly when the next tokens are not
\* CREATE TABLE, CREATE INDEX or CREATE UNIQUE INDEX; CREATE TEMP TABLE and
\* CREATE TEMPORARY TABLE fail so, and no table Parse builds has Temp = true.
C18_UnsupportedStatement ==
    [][ /\ (Running("Parse") /\ TokensNext(i) \notin {NL, ""}) =>
              ( (result' = "err" /\ err' = "unsupported statement")
                <=> ~(TokensNextN(i, 2) = "CREATE TABLE" \/ IndexStatementAt(i)) )
        /\ ~(Running("Parse") /\ TokensNext(i) \notin {NL, ""}) =>
              (err' = "unsupported statement" => err = "unsupported statement")
        /\ (Running("Parse") /\ TokensNext(i) = "CREATE"
                             /\ TokensPeek(i, 1) \in {"TEMP", "TEMPORARY"}) =>
              (result' = "err" /\ err' = "unsupported statement")
        /\ ~t'.Temp
        /\ \A n \in 1..Len(tables') : ~tables'[n].Temp
        /\ \A n \in 1..Len(retTables') : ~retTables'[n].Temp ]_vars

\* C18 witness: Parse refused a CREATE TEMP TABLE statement after a table
C18_TempTableRefused ==
    /\ result = "err"
    /\ err = "unsupported statement"
    /\ Len(tables) = 1
    /\ \E k \in 0..Len(tokens) : TokensNextN(k, 3) = "CREATE TEMP TABLE"

\* the schema and the name a text writes for its table, <<>> for other texts
QualifiedName(text) ==
    CASE text = "CREATE TABLE main.users (id INT);" -> <<"main", "users">>
      [] text = "CREATE TABLE main . users ( id INT ) ;" -> <<"main", "users">>
      [] text = "CREATE TABLE \"main\".\"users\" (id INT)" -> <<"main", "users">>
      [] text = "CREATE TABLE t ( a INT ) ;" -> <<"", "t">>
      [] OTHER -> <<>>

\* C19: for a table name written schema.name the returned Table has
\* SchemaName = schema and SQL name = name, quotes stripped; for an
\* unqualified name SchemaName is empty.
C19_SchemaQualifiedName ==
    (result # "none" /\ QualifiedName(sql) # <<>>) =>
        /\ result = "ok"
        /\ Len(retTables) = 1
        /\ retTables[1].SchemaName = QualifiedName(sql)[1]
        /\ retTables[1].sqlName = QualifiedName(sql)[2]

\* the step is parseColumn's AUTOINCREMENT
AutoIncrementStep == Running("parseColumn") /\ TokensNext(i) = "AUTOINCREMENT"

\* the two tokens before cursor k are PRIMARY KEY
FollowsPrimaryKey(k) == k >= 2 /\ TokensNextN(k - 2, 2) = "PRIMARY KEY"

\* C20 as stated: AUTOINCREMENT is accepted only directly after the column's
\* PRIMARY KEY; anywhere else the parse fails.
C20_AutoIncrementDirectlyAfterKey ==
    [][ AutoIncrementStep =>
          IF FollowsPrimaryKey(i) THEN result' = "none" /\ i' = i + 1
          ELSE result' = "err" ]_vars

\* C20 amended: AUTOINCREMENT is accepted when PRIMARY KEY was declared
\* earlier in the same column definition, directly before it or with other
\* constraints in between; when the column has no PRIMARY KEY before it, the
\* parse fails.  (PrimaryKey of the column under construction is set by its
\* own PRIMARY KEY constraint and by nothing else.)
C20_AutoIncrementAfterKey ==
    [][ /\ AutoIncrementStep =>
              /\ c' = c
              /\ IF c.PrimaryKey THEN result' = "none" /\ i' = i + 1
                 ELSE result' = "err" /\ err' # "" /\ retTables' = <<>>
        /\ (Running("parseCreateTable") /\ c' # c) => ~c'.PrimaryKey
        /\ (~NewColumnStep /\ c'.PrimaryKey # c.PrimaryKey) =>
              Running("parseColumn") /\ TokensNextN(i, 2) = "PRIMARY KEY" /\ c'.PrimaryKey ]_vars

\* C20 witness: Parse returned the column declared PRIMARY KEY NOT NULL
\* AUTOINCREMENT
C20_AutoIncrementAfterNotNull ==
    /\ \E k \in 0..Len(tokens) : TokensNextN(k, 5) = "PRIMARY KEY NOT NULL AUTOINCREMENT"
    /\ \E tbl \in ReturnedTables : tbl.Columns[1].PrimaryKey /\ ~tbl.Columns[1].Nullable

-----------------------------------------------------------------------------
(* DEFAULT clauses *)

\* parseColumn's loop stands at a DEFAULT clause
DefaultStep == Running("parseColumn") /\ TokensNext(i) = "DEFAULT"

\* the token after DEFAULT
DefaultLiteral == TokensPeek(i, 1)

\* the literal of a BOOL default, alone or as ( literal )
BoolLiteral ==
    IF DefaultLiteral = "(" /\ TokensPeek(i, 3) = ")" THEN TokensPeek(i, 2) ELSE DefaultLiteral

\* the step makes Parse fail: an error and no table
ParseFails == result' = "err" /\ err' # "" /\ retTables' = <<>>

\* the step stores the default and the parse goes on
Stores(col) == result' = "none" /\ c' = col

\* the literals on an INT column that make the parse fail: every literal that
\* is no base-10 integer, or every such literal but NULL
IntRefused(lit, nullToo) == ~ParseInt(lit).ok /\ (nullToo \/ lit # "NULL")

\* what a step at a DEFAULT clause, or a step of parseDatetimeDefault, does
DefaultClause(nullToo) ==
    /\ DefaultStep /\ c.Type = "int" =>
          /\ ParseInt(DefaultLiteral).ok =>
                Stores([c EXCEPT !.DefaultInt =
                            [Valid |-> TRUE, Int64 |-> ParseInt(DefaultLiteral).val]])
          /\ IntRefused(DefaultLiteral, nullToo) => ParseFails
    /\ DefaultStep /\ c.Type = "text" =>
          Stores([c EXCEPT !.DefaultString =
                      [Valid |-> TRUE, String |-> removeQuotes(DefaultLiteral)]])
    /\ DefaultStep /\ c.Type = "bool" =>
          /\ BoolLiteral \in {"true", "TRUE", "1"} =>
                Stores([c EXCEPT !.DefaultBool = [Valid |-> TRUE, Bool |-> TRUE]])
          /\ BoolLiteral \in {"false", "FALSE", "0"} =>
                Stores([c EXCEPT !.DefaultBool = [Valid |-> TRUE, Bool |-> FALSE]])
          /\ BoolLiteral \notin {"true", "TRUE", "1", "false", "FALSE", "0", "NULL"} => ParseFails
    /\ DefaultStep /\ c.Type = "datetime" => Stores(c)
    /\ Running("parseDatetimeDefault") =>
          /\ Stores(c)
          /\ Top' # "parseDatetimeDefault" => dtTok = ")" /\ paren' = 0 /\ i' = i
    /\ DefaultStep /\ c.Type \in {"float", "blob"} => ParseFails

\* the typed defaults of a column
DefaultsOf(col) == <<col.DefaultInt, col.DefaultString, col.DefaultBool>>

\* C21 as stated: a DEFAULT clause stores a default typed by the column's
\* Datatype (INT the base-10 value, TEXT the literal less one pair of matching
\* quotes, BOOL true or false, DATETIME nothing, its expression consumed), and
\* every non-integer literal on INT, every other literal but NULL on BOOL and
\* every DEFAULT on FLOAT or BLOB makes Parse fail
C21_NonIntegerOnIntFails == [][DefaultClause(TRUE)]_vars

\* C21 amended: the same, except that NULL on an INT column is accepted as on
\* a BOOL column; the literals refused on INT are the non-integers other than
\* NULL
C21_TypedDefault == [][DefaultClause(FALSE) /\ FieldCarried(DefaultsOf)]_vars

\* INT DEFAULT NULL was accepted: the column came back without a default
C21_IntNullAccepted ==
    /\ result = "ok"
    /\ \E k \in 0..(length - 3) :
          /\ TokensNext(k) = "INT" /\ TokensPeek(k, 1) = "DEFAULT" /\ TokensPeek(k, 2) = "NULL"
    /\ Len(retTables) = 1
    /\ retTables[1].Columns[1].Type = "int"
    /\ ~retTables[1].Columns[1].DefaultInt.Valid

-----------------------------------------------------------------------------
(* tokens.go on its own: any sequence of calls on any short token stream *)

\* the longest stream and the largest argument of the calls
MaxStreamLen == 3
MaxArg == 4

\* every stream of up to MaxStreamLen tokens
TokenStreams == UNION { [1..n -> {"a", "b"}] : n \in 0..MaxStreamLen }

\* NewTokens(tokens)
InitTokens ==
    /\ tokens \in TokenStreams
    /\ i = 0
    /\ stack = <<"Tokens">>
    /\ tables = <<>>
    /\ t = NewTable
    /\ c = NewColumn
    /\ strict = FALSE
    /\ loopVar = "perIteration"
    /\ comment = <<>>
    /\ cols = <<>>
    /\ paren = 0
    /\ dtTok = ""
    /\ result = "none"
    /\ retTables = <<>>
    /\ err = ""
    /\ sql = ""
    /\ pos = 0
    /\ token = ""
    /\ call = NoCall
    /\ prev = NoParse
    /\ mark = 0

\* a call of a method of the stream: the cursor it leaves and what it returns
Called(op, n, k, ret) ==
    /\ i' = k
    /\ call' = [op |-> op, n |-> n, ret |-> ret]
    /\ UNCHANGED <<tokens, stack, tables, t, c, strict, loopVar, comment, cols, paren, dtTok,
                   result, retTables, err, sql, pos, token, prev, mark>>

CallNext ==
    /\ Running("Tokens")
    /\ Called("Next", 0, i, TokensNext(i))

CallNextN ==
    /\ Running("Tokens")
    /\ \E n \in 0..MaxArg : Called("NextN", n, i, TokensNextN(i, n))

CallPeek ==
    /\ Running("Tokens")
    /\ \E n \in 0..MaxArg : Called("Peek", n, i, TokensPeek(i, n))

CallTake ==
    /\ Running("Tokens")
    /\ Called("Take", 0, TokensTake(i), TokensNext(i))

CallTakeN ==
    /\ Running("Tokens")
    /\ \E n \in 0..MaxArg : Called("TakeN", n, TokensTakeN(i, n), "")

CallReturn ==
    /\ Running("Tokens")
    /\ Called("Return", 0, TokensReturn(i), "")

CallReturnN ==
    /\ Running("Tokens")
    /\ \E n \in 0..MaxArg : Called("ReturnN", n, TokensReturnN(i, n), "")

NextTokens ==
    \/ CallNext
    \/ CallNextN
    \/ CallPeek
    \/ CallTake
    \/ CallTakeN
    \/ CallReturn
    \/ CallReturnN

SpecTokens == InitTokens /\ [][NextTokens]_vars

\* the step is a call of one of these methods
Calls(ops) == call'.op \in ops

\* C22: after any sequence of Next, NextN, Peek, Take, TakeN, Return and
\* ReturnN calls with non-negative arguments the cursor lies in 0..length;
\* Next, NextN and Peek leave the cursor alone; Next and Take at the end of the
\* stream return the empty string; a Return or ReturnN that would move the
\* cursor below zero leaves it where it is
C22_CursorInRange ==
    /\ [](0 <= i /\ i <= length)
    /\ [][/\ Calls({"Next", "NextN", "Peek"}) => i' = i
          /\ Calls({"Next", "Take"}) /\ i = length => call'.ret = ""
          /\ Calls({"Return"}) /\ i - 1 < 0 => i' = i
          /\ Calls({"ReturnN"}) /\ i - call'.n < 0 => i' = i]_vars

\* a ReturnN of more tokens than were taken left the cursor in the middle of
\* the stream
C22_ReturnPastZeroRefused ==
    /\ call.op = "ReturnN"
    /\ call.n = 3
    /\ i = 2
    /\ length = 3

\* C23: TakeN(n) moves the cursor on by exactly n whenever at least n tokens
\* remain, also when exactly n remain, and leaves it alone when fewer remain
C23_TakeNWholeOrNothing ==
    [][Calls({"TakeN"}) => i' = IF length - i >= call'.n THEN i + call'.n ELSE i]_vars

-----------------------------------------------------------------------------
(* The shape of Lex's output *)

\* the characters of s that are in set
RECURSIVE CountCh(_, _)
CountCh(s, set) ==
    IF Len(s) = 0 THEN 0
    ELSE (IF SubSeq(s, 1, 1) \in set THEN 1 ELSE 0) + CountCh(SubSeq(s, 2, Len(s)), set)

\* the tokens of tks that are in set
RECURSIVE CountTokens(_, _)
CountTokens(tks, set) ==
    IF Len(tks) = 0 THEN 0
    ELSE (IF Head(tks) \in set THEN 1 ELSE 0) + CountTokens(Tail(tks), set)

\* s without its spaces and tabs
RECURSIVE Unspaced(_)
Unspaced(s) ==
    IF Len(s) = 0 THEN ""
    ELSE (IF SubSeq(s, 1, 1) \in {" ", "\t"} THEN "" ELSE SubSeq(s, 1, 1))
             \o Unspaced(SubSeq(s, 2, Len(s)))

\* the tokens written one after the other
RECURSIVE Concat(_)
Concat(tks) == IF Len(tks) = 0 THEN "" ELSE Head(tks) \o Concat(Tail(tks))

Punctuation == {"(", ")", ",", ";"}

\* C24: for every text Lex returns (it never fails), with one newline token at
\* the end of each line, so as many newline tokens as lines; no token holds a
\* space or a tab, and none is made of them; every ( ) , ; is a token of one
\* character; no token is empty; the tokens stand in the order of the text
C24_LexShape ==
    /\ Top = "Lex" => result = "none" /\ pos <= Len(sql)
    /\ Lexed =>
          /\ result = "none"
          /\ CountTokens(tokens, {NL}) = CountCh(sql, {"\n"}) + 1
          /\ tokens[Len(tokens)] = NL
          /\ \A k \in 1..Len(tokens) :
                /\ tokens[k] # ""
                /\ CountCh(tokens[k], {" ", "\t"}) = 0
                /\ CountCh(tokens[k], Punctuation \cup {"\n"}) > 0 => Len(tokens[k]) = 1
          /\ CountTokens(tokens, Punctuation) = CountCh(sql, Punctuation)
          /\ Concat(tokens) = Unspaced(sql) \o "\n"

\* a text of three lines, with punctuation that touches the names, was lexed
C24_ThreeLinesLexed ==
    /\ Lexed
    /\ CountCh(sql, {"\n"}) = 2
    /\ Contains(sql, "u(id);")
    /\ CountTokens(tokens, {NL}) = 3

-----------------------------------------------------------------------------
(* Table-level UNIQUE and FOREIGN KEY *)

\* the frames that parse a table-level UNIQUE or FOREIGN KEY
ClauseFrames ==
    {"parseColumnList/unique", "parseColumnList/fkFrom", "parseColumnList/fkTo",
     "parseForeignKeyClause"}

\* the step is one of a table-level UNIQUE or FOREIGN KEY, its CONSTRAINT name
\* included
ClauseStep ==
    /\ result = "none"
    /\ \/ Top \in ClauseFrames
       \/ /\ Top = "parseCreateTable"
          /\ \/ TokensNext(i) = "UNIQUE"
             \/ TokensNextN(i, 2) = "FOREIGN KEY"
             \/ TokensNext(i) = "CONSTRAINT" /\ TokensPeek(i, 2) \in {"UNIQUE", "FOREIGN"}

\* the cursor of the UNIQUE or FOREIGN that begins the clause the cursor k is in
ClauseStart(k) ==
    CHOOSE j \in 0..k :
        /\ TokensNext(j) \in {"UNIQUE", "FOREIGN"}
        /\ \A m \in (j + 1)..k : TokensNext(m) \notin {"UNIQUE", "FOREIGN"}

\* the cursor after the first ")" at or after cursor k, length if there is none
RECURSIVE AfterClose(_)
AfterClose(k) ==
    IF k >= length THEN length
    ELSE IF TokensNext(k) = ")" THEN k + 1 ELSE AfterClose(k + 1)

\* the cursor after the supported ON clauses at cursor k
RECURSIVE AfterOnClauses(_)
AfterOnClauses(k) ==
    IF TokensNext(k) = "ON" /\ SupportedClause(k)
    THEN AfterOnClauses(k + (IF TokensPeek(k, 2) = "CASCADE" THEN 3 ELSE 4))
    ELSE k

\* REFERENCES table [ ( col ) ] [ON ...] stands at cursor k: the cursor after it
AfterReferences(k) ==
    AfterOnClauses(IF TokensPeek(k, 2) = "(" THEN k + 5 ELSE k + 2)

\* the clause at cursor k is UNIQUE ( ... ), or FOREIGN KEY ( col ) REFERENCES
\* table [ ( col ) ] followed by supported ON clauses only
WellFormedClause(k) ==
    \/ /\ TokensNext(k) = "UNIQUE"
       /\ TokensPeek(k, 1) = "("
       /\ TokensNext(AfterClose(k) - 1) = ")"
    \/ /\ TokensNextN(k, 3) = "FOREIGN KEY ("
       /\ TokensPeek(k, 3) \notin {")", ",", ""}
       /\ TokensPeek(k, 4) = ")"
       /\ LET r == removeNewlines(k + 5)
          IN  /\ TokensNext(r) = "REFERENCES"
              /\ TokensPeek(r, 1) \notin {"", NL, "(", ")", ","}
              /\ TokensPeek(r, 2) = "(" =>
                    TokensPeek(r, 3) \notin {")", ",", ""} /\ TokensPeek(r, 4) = ")"
              /\ TokensNext(AfterReferences(r)) # "ON"

\* the cursor after the well-formed clause at cursor k
ClauseEnd(k) ==
    IF TokensNext(k) = "UNIQUE" THEN AfterClose(k)
    ELSE AfterReferences(removeNewlines(k + 5))

\* C25: a table-level UNIQUE ( ... ) and a table-level single-column FOREIGN
\* KEY ( col ) REFERENCES table ( col ) [ON ...], named with CONSTRAINT or
\* not, leave the model as it is: no step of the clause changes a column of the
\* table or adds one, and the column loop goes on right after the clause, so
\* the Table is the one parsed without the clause
C25_TableClauseIgnored ==
    [][ClauseStep =>
          /\ t' = t
          /\ tables' = tables
          /\ (Top \in ClauseFrames /\ WellFormedClause(ClauseStart(i))) =>
                /\ result' = "none"
                /\ i' <= ClauseEnd(ClauseStart(i))
                /\ Top' = "parseCreateTable" => i' = ClauseEnd(ClauseStart(i))
          /\ Top = "parseCreateTable" /\ TokensNext(i) = "CONSTRAINT" =>
                i' = i + 2 /\ Top' = "parseCreateTable"]_vars

\* a table came back from a body that ends in a named FOREIGN KEY clause with
\* two ON clauses: its columns carry no foreign key
C25_NamedForeignKeyIgnored ==
    /\ result = "ok"
    /\ Len(retTables) = 1
    /\ \E k \in 0..(length - 1) : TokensNextN(k, 4) = "CONSTRAINT fk FOREIGN KEY"
    /\ Len(retTables[1].Columns) = 2
    /\ \A k \in 1..2 : retTables[1].Columns[k].ForeignKey = NoForeignKey

-----------------------------------------------------------------------------
(* Table-level FOREIGN KEY over several columns *)

\* the column list that opens at cursor k names more than one column
ListOfSeveral(k) ==
    /\ TokensNext(k) = "("
    /\ \E m \in (k + 1)..(AfterClose(k) - 2) : TokensNext(m) = ","

\* a FOREIGN KEY clause at cursor k that lists more than one column, before
\* REFERENCES or after the referenced table
MultiColumnClause(k) ==
    /\ TokensNextN(k, 2) = "FOREIGN KEY"
    /\ \/ ListOfSeveral(k + 2)
       \/ LET r == removeNewlines(AfterClose(k + 2))
          IN  TokensNext(r) = "REFERENCES" /\ ListOfSeveral(r + 2)

\* the tokens of the clause at cursor k but the columns it lists: its keywords
\* and the referenced table
ClauseTokens(k) ==
    {"FOREIGN", "KEY"} \cup { TokensNext(m) : m \in AfterClose(k + 2)..(AfterClose(k + 2) + 1) }

\* C26: a table-level FOREIGN KEY clause that lists more than one column is
\* rejected: once Parse has gone through the clause it returns an error and no
\* table, and no table it builds holds a column made of the clause's tokens
C26_MultiColumnForeignKeyRejected ==
    \A k \in 0..(length - 1) :
        (MultiColumnClause(k) /\ i > k + 2 /\ Top # "Lex") =>
            /\ result # "ok"
            /\ result = "err" => retTables = <<>> /\ err # ""
            /\ \A n \in ColumnIndexes(t) : t.Columns[n].sqlName \notin ClauseTokens(k)

-----------------------------------------------------------------------------
(* A CREATE TABLE body that is not closed *)

\* parseCreateTable is active, alone or under the functions it calls
RECURSIVE Active(_, _)
Active(frame, fs) == Len(fs) > 0 /\ (Head(fs) = frame \/ Active(frame, Tail(fs)))

\* the tokens ran out while the body of a CREATE TABLE is parsed
BodyUnclosed == result = "none" /\ Active("parseCreateTable", stack) /\ i = length

\* parseCreateTable's error for a body that is not closed
TableNotClosed == "ran out of tokens unexpectedly - table was likely not closed properly"

\* C27: when the input is exhausted before the ")" that closes a CREATE TABLE
\* body, wherever in the body that is, Parse returns the "table was not closed"
\* error and no table
C27_UnclosedTableFails ==
    BodyUnclosed ~> (result = "err" /\ err = TableNotClosed /\ retTables = <<>>)

-----------------------------------------------------------------------------
(* Table names *)

\* the tokens that are no identifier
NoIdentifier == Punctuation \cup {NL, "", "--", "."}

\* C28: every Table that Parse returns has a non-empty SQL name that is an
\* identifier of the input, its quotes stripped: never a punctuation token,
\* the newline token or the empty string.  (SetSQLName stores the Go name
\* together with the SQL name, as name.ToGo of it.)
C28_TableNamed ==
    \A tbl \in ReturnedTables :
        /\ tbl.sqlName \notin NoIdentifier
        /\ \E k \in 1..Len(tokens) :
              tokens[k] \notin NoIdentifier /\ tbl.sqlName = removeQuotes(tokens[k])

-----------------------------------------------------------------------------
(* Quoted identifiers *)

\* s is an identifier as the model stores it when quotes have no effect: it
\* has no pair of quotes around it
Unquoted(s) == removeQuotes(s) = s

\* a table-level PRIMARY KEY ( name ) stands at cursor k
SoleKeyList(k) ==
    /\ TokensNextN(k, 3) = "PRIMARY KEY ("
    /\ TokensPeek(k, 4) = ")"
    /\ TokensPeek(k, 3) \notin {")", ","}

\* C29: quotes around an identifier that is no keyword change nothing in the
\* model, in any identifier position: the name of the table and of a column,
\* the table and the column an inline REFERENCES names, and the column a
\* table-level PRIMARY KEY list names.  What a returned table holds is the
\* identifier without its quotes, and the column a key list names in quotes is
\* made the key as it is when named without them
C29_QuotingHasNoEffect ==
    \A tbl \in ReturnedTables :
        /\ Unquoted(tbl.sqlName)
        /\ \A n \in ColumnIndexes(tbl) :
              /\ Unquoted(tbl.Columns[n].sqlName)
              /\ ~tbl.Columns[n].ForeignKey.IsNil =>
                    /\ Unquoted(tbl.Columns[n].ForeignKey.Table)
                    /\ Unquoted(tbl.Columns[n].ForeignKey.Column)
        /\ (Len(retTables) = 1 /\ Len(tbl.Columns) = 1) =>
              \A k \in 0..(length - 1) :
                  (SoleKeyList(k) /\ removeQuotes(TokensPeek(k, 3)) = tbl.Columns[1].sqlName) =>
                      tbl.Columns[1].PrimaryKey

-----------------------------------------------------------------------------
(* Keywords as names *)

\* names.go: the keywords of SQLite
keywords ==
    { "ABORT", "ACTION", "ADD", "AFTER", "ALL", "ALTER", "ALWAYS", "ANALYZE", "AND", "AS",
      "ASC", "ATTACH", "AUTOINCREMENT", "BEFORE", "BEGIN", "BETWEEN", "BY", "CASCADE",
      "CASE", "CAST", "CHECK", "COLLATE", "COLUMN", "COMMIT", "CONFLICT", "CONSTRAINT",
      "CREATE", "CROSS", "CURRENT", "CURRENT_DATE", "CURRENT_TIME", "CURRENT_TIMESTAMP",
      "DATABASE", "DEFAULT", "DEFERRABLE", "DEFERRED", "DELETE", "DESC", "DETACH",
      "DISTINCT", "DO", "DROP", "EACH", "ELSE", "END", "ESCAPE", "EXCEPT", "EXCLUDE",
      "EXCLUSIVE", "EXISTS", "EXPLAIN", "FAIL", "FILTER", "FIRST", "FOLLOWING", "FOR",
      "FOREIGN", "FROM", "FULL", "GENERATED", "GLOB", "GROUP", "GROUPS", "HAVING", "IF",
      "IGNORE", "IMMEDIATE", "IN", "INDEX", "INDEXED", "INITIALLY", "INNER", "INSERT",
      "INSTEAD", "INTERSECT", "INTO", "IS", "ISNULL", "JOIN", "KEY", "LAST", "LEFT",
      "LIKE", "LIMIT", "MATCH", "MATERIALIZED", "NATURAL", "NO", "NOT", "NOTHING",
      "NOTNULL", "NULL", "NULLS", "OF", "OFFSET", "ON", "OR", "ORDER", "OTHERS", "OUTER",
      "OVER", "PARTITION", "PLAN", "PRAGMA", "PRECEDING", "PRIMARY", "QUERY", "RAISE",
      "RANGE", "RECURSIVE", "REFERENCES", "REGEXP", "REINDEX", "RELEASE", "RENAME",
      "REPLACE", "RESTRICT", "RETURNING", "RIGHT", "ROLLBACK", "ROW", "ROWS", "SAVEPOINT",
      "SELECT", "SET", "TABLE", "TEMP", "TEMPORARY", "THEN", "TIES", "TO", "TRANSACTION",
      "TRIGGER", "UNBOUNDED", "UNION", "UNIQUE", "UPDATE", "USING", "VACUUM", "VALUES",
      "VIEW", "VIRTUAL", "WHEN", "WHERE", "WINDOW", "WITH", "WITHOUT" }

\* the token opens a quote that it does not close
QuoteNotClosed(s) ==
    /\ Len(s) > 0
    /\ SubSeq(s, 1, 1) \in {"'", "\""}
    /\ (Len(s) < 2 \/ SubSeq(s, Len(s), Len(s)) # SubSeq(s, 1, 1))

\* the token is a name in matching quotes
Quoted(s) == Len(s) >= 2 /\ removeQuotes(s) # s

\* what the claim says of the token taken as a name, n the name stored
NameChecked(s, n) ==
    /\ s \in keywords => result' = "err" /\ err' # ""
    /\ QuoteNotClosed(s) => result' = "err" /\ err' # ""
    /\ Quoted(s) => result' = "none" /\ n = SubSeq(s, 2, Len(s) - 1)

\* C30: a bare SQLite keyword as the name of a table or of a column is
\* rejected with an error; the same word in matching single or double quotes
\* is accepted, its quotes stripped; a name that opens a quote and does not
\* close it is rejected
C30_KeywordNamesRejected ==
    [][ /\ (TableStarts /\ TokensPeek(i, 3) = "(") => NameChecked(TokensPeek(i, 2), t'.sqlName)
        /\ (Running("parseCreateTable")
              /\ TokensNext(i) \notin {")", "", NL, ",", "--"} \cup ConstraintWords
              /\ TokensPeek(i, 1) = "INT") =>
                NameChecked(TokensNext(i), c'.sqlName) ]_vars

-----------------------------------------------------------------------------
(* Parse called twice on the same input *)

\* a slip that would keep the table list in a variable that outlives the call
ParseAgainKeepingTables ==
    /\ result \in {"ok", "err"}
    /\ prev = NoParse
    /\ prev' = [result |-> result, retTables |-> retTables, err |-> err]
    /\ i' = 0
    /\ stack' = <<"Parse">>
    /\ t' = NewTable
    /\ c' = NewColumn
    /\ comment' = <<>>
    /\ cols' = <<>>
    /\ paren' = 0
    /\ dtTok' = ""
    /\ result' = "none"
    /\ retTables' = <<>>
    /\ err' = ""
    /\ UNCHANGED <<tokens, tables, strict, loopVar, sql, pos, token, call>>
    /\ mark' = 0

\* Parse has returned and is called again with the same text: Lex hands it a
\* new token stream over the same tokens, and every variable of Parse and of
\* the functions it calls is a local, made anew
ParseAgain ==
    /\ result \in {"ok", "err"}
    /\ prev = NoParse
    /\ prev' = [result |-> result, retTables |-> retTables, err |-> err]
    /\ i' = 0
    /\ stack' = <<"Parse">>
    /\ tables' = <<>>
    /\ t' = NewTable
    /\ c' = NewColumn
    /\ comment' = <<>>
    /\ cols' = <<>>
    /\ paren' = 0
    /\ dtTok' = ""
    /\ result' = "none"
    /\ retTables' = <<>>
    /\ err' = ""
    /\ UNCHANGED <<tokens, strict, loopVar, sql, pos, token, call>>
    /\ mark' = 0

NextTwice == Next \/ ParseAgain

SpecTwice == Init /\ [][NextTwice]_vars

-----------------------------------------------------------------------------
(* The columns of the table after they are appended *)

\* a step of the parse of the table t: parseCreateTable or a function it calls
TableStep == result = "none" /\ Active("parseCreateTable", stack)

\* col without its two key flags
WithoutKeyFlags(col) == [col EXCEPT !.PrimaryKey = FALSE, !.CompositePrimaryKey = FALSE]

\* the step is the end of a table-level PRIMARY KEY list: SetPrimaryKeys
KeyListStep == Running("parseColumnList/primaryKey") /\ TokensNext(i) = ")"

-----------------------------------------------------------------------------
(* The typed default of a returned column *)

\* the Datatype each of the three default fields belongs to
DefaultFields ==
    {<<"DefaultInt", "int">>, <<"DefaultString", "text">>, <<"DefaultBool", "bool">>}

\* the default fields of col that are valid
ValidDefaults(col) == {f \in DefaultFields : col[f[1]].Valid}

\* C33: in every column Parse returns at most one of DefaultInt, DefaultString
\* and DefaultBool is valid, and a valid one is the one of the column's
\* Datatype: DefaultInt on INT, DefaultString on TEXT, DefaultBool on BOOL;
\* a FLOAT, BLOB or DATETIME column has no valid default
C33_DefaultMatchesType ==
    \A tbl \in ReturnedTables : \A k \in ColumnIndexes(tbl) :
        LET col == tbl.Columns[k]
        IN  /\ Cardinality(ValidDefaults(col)) <= 1
            /\ \A f \in ValidDefaults(col) : col.Type = f[2]
            /\ col.Type \in {"float", "blob", "datetime"} => ValidDefaults(col) = {}

\* a BOOL column was returned with its boolean default, after a column of
\* another Datatype in the same table
C33_BoolDefaultReturned ==
    \E tbl \in ReturnedTables :
        /\ Len(tbl.Columns) = 2
        /\ tbl.Columns[1].Type = "bool"
        /\ tbl.Columns[1].DefaultBool = [Valid |-> TRUE, Bool |-> TRUE]
        /\ tbl.Columns[2].Type = "int"

-----------------------------------------------------------------------------
(* The statements and the column definitions of the input *)

\* the input read as SQL, from token k on: the names of the column definitions
\* of each CREATE TABLE statement, in order.  mode is "top" between
\* statements, "head" from CREATE TABLE to the opening parenthesis, "body"
\* inside it and "note" in a comment of the body; depth counts the open
\* parentheses; atItem holds at the start of an item of the body's list;
\* names are the columns of the statement so far, acc the statements closed
RECURSIVE ColumnsDeclared(_, _, _, _, _, _)
ColumnsDeclared(k, mode, depth, atItem, names, acc) ==
    IF k > Len(tokens) THEN acc
    ELSE LET tok == tokens[k]
             nxt == IF k < Len(tokens) THEN tokens[k + 1] ELSE ""
         IN  CASE mode = "note" ->
                    ColumnsDeclared(k + 1, IF tok = NL THEN "body" ELSE "note",
                               depth, atItem, names, acc)
               [] mode = "top" ->
                    IF tok = "CREATE" /\ nxt = "TABLE"
                    THEN ColumnsDeclared(k + 2, "head", 0, FALSE, <<>>, acc)
                    ELSE ColumnsDeclared(k + 1, "top", 0, FALSE, <<>>, acc)
               [] mode = "head" ->
                    IF tok = "("
                    THEN ColumnsDeclared(k + 1, "body", 1, TRUE, <<>>, acc)
                    ELSE ColumnsDeclared(k + 1, "head", 0, FALSE, <<>>, acc)
               [] OTHER ->
                    CASE tok = "--" -> ColumnsDeclared(k + 1, "note", depth, atItem, names, acc)
                      [] tok = NL -> ColumnsDeclared(k + 1, "body", depth, atItem, names, acc)
                      [] tok = "(" -> ColumnsDeclared(k + 1, "body", depth + 1, FALSE, names, acc)
                      [] tok = ")" ->
                            IF depth = 1
                            THEN ColumnsDeclared(k + 1, "top", 0, FALSE, <<>>, Append(acc, names))
                            ELSE ColumnsDeclared(k + 1, "body", depth - 1, FALSE, names, acc)
                      [] tok = "," -> ColumnsDeclared(k + 1, "body", depth, depth = 1, names, acc)
                      [] OTHER ->
                            IF atItem /\ tok \notin ConstraintWords
                            THEN ColumnsDeclared(k + 1, "body", depth, FALSE,
                                            Append(names, removeQuotes(tok)), acc)
                            ELSE ColumnsDeclared(k + 1, "body", depth, FALSE, names, acc)

\* the names of the columns of each returned Table
ReturnedColumnNames ==
    [n \in 1..Len(retTables) |->
        [k \in 1..Len(retTables[n].Columns) |-> retTables[n].Columns[k].sqlName]]

\* C34: when Parse succeeds the returned list has one Table per CREATE TABLE
\* statement of the input, in the order of the statements, and the Columns of
\* each Table are one Column per column definition of its statement, in the
\* order they are declared; no statement is dropped
C34_OneTablePerStatement ==
    result = "ok" => ReturnedColumnNames = ColumnsDeclared(1, "top", 0, FALSE, <<>>, <<>>)

-----------------------------------------------------------------------------
(* The iterations of the table-body loop *)

\* the step ends an iteration of parseCreateTable's loop with the loop going on:
\* it is taken inside the body and leaves parseCreateTable the running frame
IterationEnds ==
    /\ result = "none" /\ Active("parseCreateTable", stack)
    /\ result' = "none" /\ stack' # <<>> /\ Head(stack') = "parseCreateTable"

\* the cursor when the iteration the step belongs to dispatched
IterationStart == IF Top = "parseCreateTable" THEN i ELSE mark

\* C35: every iteration of the table-body loop of parseCreateTable returns or
\* advances the cursor by at least one token, on each branch it dispatches to
\* and whatever token follows the dispatching one
C35_IterationAdvances == [][IterationEnds => i' > IterationStart]_vars

-----------------------------------------------------------------------------
(* SetPrimaryKeys and the names it does not find *)

\* SetPrimaryKeys returns an error for these names: there is none, or one of
\* them is the name of no column of the table
KeyNamesRefused ==
    \/ cols = <<>>
    \/ \E n \in 1..Len(cols) : \A k \in ColumnIndexes(t) : t.Columns[k].sqlName # cols[n]

\* C36: SetPrimaryKeys is all-or-nothing: when it returns an error, for an
\* empty list of names or a name that matches no column, no column's
\* PrimaryKey or CompositePrimaryKey flag has changed; the flags are set only
\* when every name was found
C36_SetPrimaryKeysAllOrNothing ==
    [][(KeyListStep /\ KeyNamesRefused) =>
          \A k \in ColumnIndexes(t) :
              /\ t'.Columns[k].PrimaryKey = t.Columns[k].PrimaryKey
              /\ t'.Columns[k].CompositePrimaryKey = t.Columns[k].CompositePrimaryKey]_vars

-----------------------------------------------------------------------------
(* DEFAULT NULL *)

\* the Datatypes that accept a DEFAULT clause
DefaultTypes == {"int", "text", "bool", "datetime"}

\* C37: DEFAULT NULL means no default on every Datatype that accepts defaults:
\* after DEFAULT NULL on an INT, TEXT, BOOL or DATETIME column none of
\* DefaultInt, DefaultString and DefaultBool is valid, and the two tokens
\* DEFAULT and NULL, no more and no fewer, have been consumed
C37_DefaultNullIsNoDefault ==
    [][(DefaultStep /\ DefaultLiteral = "NULL" /\ c.Type \in DefaultTypes) =>
          /\ result' = "none"
          /\ ValidDefaults(c') = {}
          /\ i' = i + 2]_vars

-----------------------------------------------------------------------------
(* CHECK constraints *)

\* the position of the ")" that closes the depth-th open parenthesis, looked
\* for from position k on; 0 when the input has none
RECURSIVE CloseOf(_, _)
CloseOf(k, depth) ==
    IF k > Len(tokens) THEN 0
    ELSE IF tokens[k] = "(" THEN CloseOf(k + 1, depth + 1)
    ELSE IF tokens[k] = ")" THEN (IF depth = 1 THEN k ELSE CloseOf(k + 1, depth - 1))
    ELSE CloseOf(k + 1, depth)

\* the position of the ")" that matches the "(" after the CHECK at position j;
\* 0 when no "(" follows CHECK or none closes it
CheckEnd(j) ==
    IF j < Len(tokens) /\ tokens[j + 1] = "(" THEN CloseOf(j + 2, 1) ELSE 0

\* the position of the last CHECK among the first k tokens
LastCheck(k) ==
    LET S == {j \in 1..k : tokens[j] = "CHECK"}
    IN  CHOOSE j \in S : \A m \in S : m <= j

\* the step is parseCheckConstraint's first, taken by parseColumn or by
\* parseTableConstraint
CheckEntered ==
    /\ result = "none"
    /\ Top \in {"parseColumn", "parseCreateTable"}
    /\ TokensNext(i) = "CHECK"

\* C38: a column-level or table-level CHECK constraint is discarded without
\* effect: what is consumed is CHECK and its expression through the
\* parenthesis that matches the first opening one, nested ones counted, never
\* the parenthesis that closes the table, and no attribute of a Table or a
\* Column changes
C38_CheckDiscarded ==
    [][/\ (CheckEntered \/ Running("parseCheckConstraint")) =>
             /\ result' = "none"
             /\ t' = t /\ c' = c /\ tables' = tables
       /\ (Running("parseCheckConstraint") /\ Top' # "parseCheckConstraint") =>
             i' = CheckEnd(LastCheck(i))]_vars

-----------------------------------------------------------------------------
(* Two schemas that differ in the text of their comments *)

\* the tokens tk[k..] without the text of the comments: what stands between
\* a "--" and the end of its line is left out
RECURSIVE StripComments(_, _, _)
StripComments(tk, k, inComment) ==
    IF k > Len(tk) THEN <<>>
    ELSE IF inComment /\ tk[k] # NL THEN StripComments(tk, k + 1, TRUE)
    ELSE <<tk[k]>> \o StripComments(tk, k + 1, tk[k] # NL /\ (inComment \/ tk[k] = "--"))

\* the schemas that differ from the one parsed only in the text of comments
CommentVariants ==
    IF tokens \notin CommentInputs THEN {}
    ELSE {tk \in CommentInputs :
             tk # tokens /\ StripComments(tk, 1, FALSE) = StripComments(tokens, 1, FALSE)}

\* Parse has returned and is called with a schema that differs from the first
\* one in the text of its comments only
ParseVariant ==
    /\ result \in {"ok", "err", "panic"}
    /\ prev = NoParse
    /\ prev' = [result |-> result, retTables |-> retTables, err |-> err]
    /\ tokens' \in CommentVariants
    /\ i' = 0
    /\ stack' = <<"Parse">>
    /\ tables' = <<>>
    /\ t' = NewTable
    /\ c' = NewColumn
    /\ comment' = <<>>
    /\ cols' = <<>>
    /\ paren' = 0
    /\ dtTok' = ""
    /\ result' = "none"
    /\ retTables' = <<>>
    /\ err' = ""
    /\ mark' = 0
    /\ UNCHANGED <<strict, loopVar, sql, pos, token, call>>

NextVariant == Next \/ ParseVariant

SpecVariant == Init /\ [][NextVariant]_vars

\* the tables without their Comment fields
WithoutComments(tbls) ==
    [n \in 1..Len(tbls) |->
        [tbls[n] EXCEPT !.Comment = "",
                        !.Columns = [k \in 1..Len(@) |-> [@[k] EXCEPT !.Comment = ""]]]]

\* C39: the text of a comment in a table body does not affect the parsed
\* structure: two schemas that differ only in the tokens between a "--" and
\* the end of its line parse to models that are equal but for the Comment
\* fields, or both fail
C39_CommentTextIgnored ==
    (prev # NoParse /\ result # "none") =>
        \/ prev.result # "ok" /\ result # "ok"
        \/ /\ prev.result = "ok" /\ result = "ok"
           /\ WithoutComments(prev.retTables) = WithoutComments(retTables)

-----------------------------------------------------------------------------
(* parseColumnDataType and DatatypeFromSQL *)

\* the Datatypes of a column
Datatypes == {"int", "bool", "float", "text", "blob", "datetime"}

\* C40: parseColumnDataType agrees with DatatypeFromSQL: for every type token
\* but "," and ")" and for both values of strict it returns an error exactly
\* when DatatypeFromSQL(token, strict) does, and otherwise the column's Type is
\* the Datatype DatatypeFromSQL returns, one of INT, BOOL, FLOAT, TEXT, BLOB
\* and DATETIME
C40_AgreesWithDatatypeFromSQL ==
    (DataTypeResolved /\ TokensNext(1) \notin {",", ")"}) =>
        LET d == DatatypeFromSQL(TokensNext(1), strict)
        IN  /\ result = "err" <=> d.err # ""
            /\ result = "err" => err = d.err
            /\ result # "err" =>
                  /\ result = "ok"
                  /\ c.Type = d.Type
                  /\ d.Type \in Datatypes

\* VARCHAR was resolved to BLOB without the strict flag, as DatatypeFromSQL does
C40_UnknownTypeIsBlob ==
    /\ DataTypeResolved /\ ~strict /\ TokensNext(1) = "VARCHAR"
    /\ result = "ok" /\ c.Type = "blob"
    /\ DatatypeFromSQL("VARCHAR", FALSE) = [err |-> "", Type |-> "blob"]

====
